---- MODULE Spec2Model ----
(***************************************************************************)
(* Model of lib/ppn/utils/handhistory.py: the poker-engine event adapter,  *)
(* the generic (narrative) event generator and its end-of-hand resolution, *)
(* the hand classes and the hand-history formatter.                        *)
(*                                                                         *)
(* Python values are modelled as follows.  A namedtuple is a record whose  *)
(* field "cls" is the class name.  An object attribute or dict key that    *)
(* may be missing is listed in a set of present names ("attrs", "keys").   *)
(* None for a hand is the record NoneHand; a dict is a function.  A string *)
(* that the code takes apart (the betting structure) is the sequence of    *)
(* its characters.  An exception is the string "<Type>: <what was looked   *)
(* up>".  A dict keyed by the player ids 21, 22 and 23 iterates in        *)
(* ascending key order (CPython 2 hashes an int to itself: slots 5, 6 and  *)
(* 7 of its eight), which is the order SetToSeq produces.                  *)
(***************************************************************************)
EXTENDS Integers, Sequences, FiniteSets, TLC

VARIABLES
    pc,                  \* position of the normalizer in the hand
    context,             \* the Context object threaded through generate()
    out,                 \* narrative events consumed by the caller so far
    event,               \* the engine event handled last
    emitted,             \* the narrative events the last step produced
    error,               \* "" or the exception that escaped
    pokerengine_hand,    \* generate_hand_history: the PokerEngineHand
    todo,                \* raw engine records not yet consumed
    end_state,           \* handle_EndEvent: showdown_stack[0]
    best_hands,          \* handle_EndEvent: result of get_best_hands
    main_pot_index,      \* handle_EndEvent: num_pots - 1
    pots,                \* handle_EndEvent: the deque of resolved pots
    players_that_showed, \* handle_EndEvent: closure set
    players_that_mucked, \* handle_EndEvent: closure set
    pending,             \* handle_EndEvent: showdown_stack records still to come
    stack,               \* handle_EndEvent: showdown_stack[1:] consumed so far
    rec_events,          \* the events each consumed record produced
    runs,                \* generate_hand_history: the calls completed so far
    history              \* generate_hand_history: the formatted lines

vars == <<pc, context, out, event, emitted, error, pokerengine_hand, todo,
          end_state, best_hands, main_pot_index, pots, players_that_showed,
          players_that_mucked, pending, stack, rec_events, runs, history>>

(* What one call of generate_hand_history works on and what it leaves *)
callVars == <<pokerengine_hand, runs, history>>

endVars == <<end_state, best_hands, main_pot_index, pots, players_that_showed,
             players_that_mucked, pending, stack, rec_events>>

-----------------------------------------------------------------------------
(* Bounds of the model *)

MaxBlind == 3
MaxBlindEvents == 2
MaxRecords == 2
MaxPots == 2
MaxShare == 1

(* The player ids of the hands the tests use *)
PLAYERS == {22, 23}

-----------------------------------------------------------------------------
(* Generic helpers *)

RECURSIVE SetToSeq(_)
SetToSeq(S) ==
    IF S = {} THEN <<>>
    ELSE LET m == CHOOSE x \in S : \A y \in S : x <= y
         IN <<m>> \o SetToSeq(S \ {m})

RECURSIVE Flatten(_)
Flatten(ss) == IF ss = <<>> THEN <<>> ELSE Head(ss) \o Flatten(Tail(ss))

Range(s) == {s[i] : i \in 1..Len(s)}

Last(s) == s[Len(s)]

SelectEvents(s, classes) == SelectSeq(s, LAMBDA e : e.cls \in classes)

-----------------------------------------------------------------------------
(* Context: an attribute is present once it has been assigned *)

EmptyContext ==
    [attrs |-> {}, small_blind |-> 0, big_blind |-> 0, player_cards |-> <<>>,
     player_names |-> <<>>, hand_timestamp |-> 0]

SetAttr(ctx, name, value) ==
    [[ctx EXCEPT ![name] = value] EXCEPT !.attrs = @ \cup {name}]

(* What a handler yields: the events it produced before finishing or before
   an exception escaped, the context it leaves, and the exception if any. *)
Outcome(events, ctx, err) == [events |-> events, context |-> ctx, error |-> err]

-----------------------------------------------------------------------------
(* Engine events (typed) *)

GameEvent(level, hand_id, hands_count, hand_timestamp, variant, betting_structure, players, button_seat, player_chips) ==
    [cls |-> "GameEvent", level |-> level, hand_id |-> hand_id,
     hands_count |-> hands_count, hand_timestamp |-> hand_timestamp,
     variant |-> variant, betting_structure |-> betting_structure,
     players |-> players, button_seat |-> button_seat,
     player_chips |-> player_chips]

RoundEvent(round_name, community_cards, dealt_cards) ==
    [cls |-> "RoundEvent", round_name |-> round_name,
     community_cards |-> community_cards, dealt_cards |-> dealt_cards]

BlindEvent(player_id, blind_amount, dead_amount) ==
    [cls |-> "BlindEvent", player_id |-> player_id,
     blind_amount |-> blind_amount, dead_amount |-> dead_amount]

AnteEvent(player_id, ante_amount) ==
    [cls |-> "AnteEvent", player_id |-> player_id, ante_amount |-> ante_amount]

AllInEvent(player_id) == [cls |-> "AllInEvent", player_id |-> player_id]

CallEvent(player_id, call_amount) ==
    [cls |-> "CallEvent", player_id |-> player_id, call_amount |-> call_amount]

CheckEvent(player_id) == [cls |-> "CheckEvent", player_id |-> player_id]

FoldEvent(player_id) == [cls |-> "FoldEvent", player_id |-> player_id]

RaiseEvent(player_id, raise_to_amount, pay_amount, raise_by_amount) ==
    [cls |-> "RaiseEvent", player_id |-> player_id,
     raise_to_amount |-> raise_to_amount, pay_amount |-> pay_amount,
     raise_by_amount |-> raise_by_amount]

ShowdownEvent(community_cards, player_cards) ==
    [cls |-> "ShowdownEvent", community_cards |-> community_cards,
     player_cards |-> player_cards]

CanceledEvent(player_id, returned_amount) ==
    [cls |-> "CanceledEvent", player_id |-> player_id,
     returned_amount |-> returned_amount]

EndEvent(winners, showdown_stack) ==
    [cls |-> "EndEvent", winners |-> winners, showdown_stack |-> showdown_stack]

-----------------------------------------------------------------------------
(* Narrative events and the values they carry *)

BettingStructure(limit, small_blind, big_blind) ==
    [limit |-> limit, small_blind |-> small_blind, big_blind |-> big_blind]

Player(player_id, name, seat_number, chips) ==
    [player_id |-> player_id, name |-> name, seat_number |-> seat_number,
     chips |-> chips]

BestHands(high, low) == [high |-> high, low |-> low]

ResolvedPot(pot_amount, eligible_players, winners) ==
    [pot_amount |-> pot_amount, eligible_players |-> eligible_players,
     winners |-> winners]

HandStarted(hand_id, hand_timestamp, variant, betting_structure, players) ==
    [cls |-> "HandStarted", hand_id |-> hand_id,
     hand_timestamp |-> hand_timestamp, variant |-> variant,
     betting_structure |-> betting_structure, players |-> players]

PlayerPostedSmallBlind(player_id, amount) ==
    [cls |-> "PlayerPostedSmallBlind", player_id |-> player_id, amount |-> amount]

PlayerPostedBigBlind(player_id, amount) ==
    [cls |-> "PlayerPostedBigBlind", player_id |-> player_id, amount |-> amount]

PlayerPostedBigAndSmallBlinds(player_id, big_blind_amount, small_blind_amount) ==
    [cls |-> "PlayerPostedBigAndSmallBlinds", player_id |-> player_id,
     big_blind_amount |-> big_blind_amount,
     small_blind_amount |-> small_blind_amount]

PlayerPostedAnte(player_id, amount) ==
    [cls |-> "PlayerPostedAnte", player_id |-> player_id, amount |-> amount]

CardsDealtToPlayer(player_id, cards) ==
    [cls |-> "CardsDealtToPlayer", player_id |-> player_id, cards |-> cards]

PreflopRoundStarted == [cls |-> "PreflopRoundStarted"]

FlopDealt(flop_cards) == [cls |-> "FlopDealt", flop_cards |-> flop_cards]

TurnDealt(turn_card) == [cls |-> "TurnDealt", turn_card |-> turn_card]

RiverDealt(river_card) == [cls |-> "RiverDealt", river_card |-> river_card]

Showdown == [cls |-> "Showdown"]

PlayerCalled(player_id, amount) ==
    [cls |-> "PlayerCalled", player_id |-> player_id, amount |-> amount]

PlayerChecked(player_id) == [cls |-> "PlayerChecked", player_id |-> player_id]

PlayerFolded(player_id) == [cls |-> "PlayerFolded", player_id |-> player_id]

PlayerRaised(player_id, by_amount, to_amount) ==
    [cls |-> "PlayerRaised", player_id |-> player_id, by_amount |-> by_amount,
     to_amount |-> to_amount]

PlayerWentAllIn(player_id) == [cls |-> "PlayerWentAllIn", player_id |-> player_id]

UncalledBetWithoutAmount(player_id, amount) ==
    [cls |-> "UncalledBetReturnedToPlayer", player_id |-> player_id,
     amount |-> 0]

UncalledBetReturnedToPlayer(player_id, amount) ==
    [cls |-> "UncalledBetReturnedToPlayer", player_id |-> player_id,
     amount |-> amount]

PlayerShowedHand(player_id, cards, high_hand, low_hand) ==
    [cls |-> "PlayerShowedHand", player_id |-> player_id, cards |-> cards,
     high_hand |-> high_hand, low_hand |-> low_hand]

PlayerMuckedHand(player_id, cards, high_hand, low_hand) ==
    [cls |-> "PlayerMuckedHand", player_id |-> player_id, cards |-> cards,
     high_hand |-> high_hand, low_hand |-> low_hand]

PlayerCollectedFromSidePot(player_id, amount, side_pot_index) ==
    [cls |-> "PlayerCollectedFromSidePot", player_id |-> player_id,
     amount |-> amount, side_pot_index |-> side_pot_index]

PlayerCollectedFromMainPot(player_id, amount) ==
    [cls |-> "PlayerCollectedFromMainPot", player_id |-> player_id,
     amount |-> amount]

HandCanceled == [cls |-> "HandCanceled"]

HandEnded(resolved_pots, player_rake) ==
    [cls |-> "HandEnded", pots |-> resolved_pots, player_rake |-> player_rake]

-----------------------------------------------------------------------------
(* Cards.  A pokerengine card is a number: its low six bits are the card
   index (pokerengine.pokercards.visible_card), hidden cards carry the two
   high bits (is_visible is false for them) and 255 is NOCARD. *)

NOCARD == 255

POKEREVAL_RANK_ADAPTER_LOOKUP ==
    <<"Two", "Three", "Four", "Five", "Six", "Seven", "Eight", "Nine", "Ten",
      "Jack", "Queen", "King", "Ace">>

POKEREVAL_SUIT_ADAPTER_LOOKUP == <<"hearts", "diamonds", "clubs", "spades">>

visible_card(pokercard) == pokercard % 64

is_visible(pokercard) == pokercard < 192

Upcard(rank, suit) == [cls |-> "Upcard", rank |-> rank, suit |-> suit]

Downcard(rank, suit) == [cls |-> "Downcard", rank |-> rank, suit |-> suit]

pokereval_card_adapter(pokercard) ==
    LET card_index == visible_card(pokercard)
        rank == POKEREVAL_RANK_ADAPTER_LOOKUP[(card_index % 13) + 1]
        suit == POKEREVAL_SUIT_ADAPTER_LOOKUP[(card_index \div 13) + 1]
    IN IF is_visible(pokercard) THEN Upcard(rank, suit) ELSE Downcard(rank, suit)

(* A raw card set is a PokerCards object or a plain list of card numbers. *)
PokerCards(cards) == [is_PokerCards |-> TRUE, cards |-> cards]

CardList(cards) == [is_PokerCards |-> FALSE, cards |-> cards]

pokercards_adapter(pokercards) ==
    LET cards == IF pokercards.is_PokerCards
                 THEN SelectSeq(pokercards.cards, LAMBDA c : c # NOCARD)
                 ELSE pokercards.cards
    IN  [i \in 1..Len(cards) |-> pokereval_card_adapter(cards[i])]

-----------------------------------------------------------------------------
(* Evaluated hands *)

NoneHand == [cls |-> "None", cards |-> <<>>, pokereval_ranking |-> 0]

Hand(cls, cards, pokereval_ranking) ==
    [cls |-> cls, cards |-> cards, pokereval_ranking |-> pokereval_ranking]

IsNone(h) == h.cls = "None"

BetterByHigherRank(h, other_hand) ==
    h.pokereval_ranking > other_hand.pokereval_ranking

(* LowHand.is_better_than compares with <, HighHand (and every subclass of
   it) with >. *)
is_better_than(h, other_hand) ==
    IF h.cls = "LowHand"
    THEN h.pokereval_ranking < other_hand.pokereval_ranking
    ELSE h.pokereval_ranking > other_hand.pokereval_ranking

(* HighHand.__eq__ / LowHand.__eq__, defined on two hands *)
hand_eq(h, other_hand) ==
    h.pokereval_ranking = other_hand.pokereval_ranking

HandAdapterCategories ==
    {"Nothing", "NoPair", "TwoPair", "Trips", "Straight", "Flush", "FlHouse",
     "Quads", "StFlush"}

POKEREVAL_HAND_ADAPTER_LOOKUP(hand_category) ==
    CASE hand_category = "Nothing" -> "LowHand"
      [] hand_category = "NoPair" -> "HighCard"
      [] hand_category = "TwoPair" -> "TwoPair"
      [] hand_category = "Trips" -> "ThreeOfAKind"
      [] hand_category = "Straight" -> "Straight"
      [] hand_category = "Flush" -> "Flush"
      [] hand_category = "FlHouse" -> "FullHouse"
      [] hand_category = "Quads" -> "FourOfAKind"
      [] hand_category = "StFlush" -> "StraightFlush"

(* The engine's best hand [ranking, [category, card, ...]] *)
PokerevalHand(ranking, category, cards) ==
    [ranking |-> ranking, category |-> category, cards |-> cards]

(* pokereval_best_hand_adapter: [hand |-> ..., error |-> ...] *)
pokereval_best_hand_adapter(pokereval_hand) ==
    LET cards == pokercards_adapter(CardList(pokereval_hand.cards))
    IN IF cards = <<>>
       THEN [hand |-> NoneHand, error |-> ""]
       ELSE IF pokereval_hand.category \notin HandAdapterCategories
       THEN [hand |-> NoneHand, error |-> "KeyError: hand_category"]
       ELSE [hand |-> Hand(POKEREVAL_HAND_ADAPTER_LOOKUP(pokereval_hand.category),
                           cards, pokereval_hand.ranking),
             error |-> ""]

-----------------------------------------------------------------------------
(* amount_string_to_int and parse_betting_structure.  The betting structure
   is the sequence of its characters. *)

ScaleFactor == 100

DigitChars == <<"0", "1", "2", "3", "4", "5", "6", "7", "8", "9">>

Digits == Range(DigitChars)

DigitValue(c) == (CHOOSE i \in 1..10 : DigitChars[i] = c) - 1

RECURSIVE NatOf(_)
NatOf(digits) ==
    IF digits = <<>> THEN 0
    ELSE 10 * NatOf(SubSeq(digits, 1, Len(digits) - 1)) + DigitValue(Last(digits))

RECURSIVE Pow10(_)
Pow10(n) == IF n = 0 THEN 1 ELSE 10 * Pow10(n - 1)

(* The first position >= from at which c stands in s, or 0 *)
FirstIndex(s, c, from) ==
    IF \E i \in from..Len(s) : s[i] = c
    THEN CHOOSE i \in from..Len(s) :
            s[i] = c /\ \A j \in from..(i - 1) : s[j] # c
    ELSE 0

(* The mutant: the amount without the scale factor *)
AmountUnscaled(amount_string) ==
    LET dot == FirstIndex(amount_string, ".", 1)
    IN IF dot = 0 THEN NatOf(amount_string)
       ELSE NatOf(SubSeq(amount_string, 1, dot - 1))

(* int(Decimal(amount_string) * scale_factor) for a string of the form
   digits, or digits "." digits: the product is exact and int() truncates. *)
amount_string_to_int(amount_string) ==
    LET dot == FirstIndex(amount_string, ".", 1)
        whole == IF dot = 0 THEN amount_string
                 ELSE SubSeq(amount_string, 1, dot - 1)
        fraction == IF dot = 0 THEN <<>>
                    ELSE SubSeq(amount_string, dot + 1, Len(amount_string))
    IN NatOf(whole) * ScaleFactor
         + (NatOf(fraction) * ScaleFactor) \div Pow10(Len(fraction))

(* t matches [0-9]?\.?[0-9]+ entirely *)
AmountPattern(t) ==
    \E a \in 0..1, d \in 0..1 :
        /\ a + d < Len(t)
        /\ (a = 1 => t[1] \in Digits)
        /\ (d = 1 => t[a + 1] = ".")
        /\ \A i \in (a + d + 1)..Len(t) : t[i] \in Digits

(* The last three groups of
       ([0-9]?\.?[0-9]+)-([0-9]?\.?[0-9]+)-(.+)
   matched at position start, or <<>>.  An amount holds no "-", so each
   amount group ends at the next "-" and the limit group is the rest. *)
MatchFrom(s, start) ==
    LET q == FirstIndex(s, "-", start)
        r == IF q = 0 THEN 0 ELSE FirstIndex(s, "-", q + 1)
    IN IF q = 0 \/ r = 0 \/ r = Len(s) THEN <<>>
       ELSE LET small == SubSeq(s, start, q - 1)
                big == SubSeq(s, q + 1, r - 1)
            IN IF AmountPattern(small) /\ AmountPattern(big)
               THEN <<small, big, SubSeq(s, r + 1, Len(s))>>
               ELSE <<>>

AntePrefix == <<"a", "n", "t", "e", "-">>

(* re.match(r'(ante-)?...', betting_structure): the optional group is tried
   first with the prefix, then without it. *)
re_match(s) ==
    LET with_ante == IF Len(s) >= Len(AntePrefix)
                        /\ SubSeq(s, 1, Len(AntePrefix)) = AntePrefix
                     THEN MatchFrom(s, Len(AntePrefix) + 1)
                     ELSE <<>>
    IN IF with_ante # <<>> THEN with_ante ELSE MatchFrom(s, 1)

LimitKeys ==
    {<<"l", "i", "m", "i", "t">>,
     <<"n", "o", "-", "l", "i", "m", "i", "t">>,
     <<"p", "o", "t", "-", "l", "i", "m", "i", "t">>}

LIMIT_MAP(limit) ==
    CASE limit = <<"l", "i", "m", "i", "t">> -> "Limit"
      [] limit = <<"n", "o", "-", "l", "i", "m", "i", "t">> -> "No Limit"
      [] limit = <<"p", "o", "t", "-", "l", "i", "m", "i", "t">> -> "Pot Limit"

ParseSwapsBlinds(betting_structure) ==
    LET groups == re_match(betting_structure)
    IN IF groups = <<>> \/ groups[3] \notin LimitKeys
       THEN [value |-> BettingStructure("", 0, 0), error |-> "KeyError: limit"]
       ELSE [value |-> BettingStructure(LIMIT_MAP(groups[3]),
                                        amount_string_to_int(groups[2]),
                                        amount_string_to_int(groups[1])),
             error |-> ""]

(* parse_betting_structure: [value |-> BettingStructure, error |-> ...].
   Without a match re.match returns None and None.groups() is an
   AttributeError. *)
parse_betting_structure(betting_structure) ==
    LET groups == re_match(betting_structure)
        nothing == BettingStructure("", 0, 0)
    IN IF groups = <<>>
       THEN [value |-> nothing, error |-> "AttributeError: groups"]
       ELSE IF groups[3] \notin LimitKeys
       THEN [value |-> nothing, error |-> "KeyError: limit"]
       ELSE [value |-> BettingStructure(LIMIT_MAP(groups[3]),
                                        amount_string_to_int(groups[1]),
                                        amount_string_to_int(groups[2])),
             error |-> ""]

-----------------------------------------------------------------------------
(* PokerEngineEventGenerator.generate_from_event: a raw record
   [label, args] becomes the typed event EVENT_MAP names, or nothing when
   the label is not in the map (the KeyError is caught). *)

EVENT_MAP(raw) ==
    LET a == raw.args
    IN CASE raw.label = "game" ->
              <<GameEvent(a[1], a[2], a[3], a[4], a[5], a[6], a[7], a[8], a[9])>>
         [] raw.label = "round" -> <<RoundEvent(a[1], a[2], a[3])>>
         [] raw.label = "blind" -> <<BlindEvent(a[1], a[2], a[3])>>
         [] raw.label = "ante" -> <<AnteEvent(a[1], a[2])>>
         [] raw.label = "all-in" -> <<AllInEvent(a[1])>>
         [] raw.label = "call" -> <<CallEvent(a[1], a[2])>>
         [] raw.label = "check" -> <<CheckEvent(a[1])>>
         [] raw.label = "fold" -> <<FoldEvent(a[1])>>
         [] raw.label = "raise" -> <<RaiseEvent(a[1], a[2], a[3], a[4])>>
         [] raw.label = "showdown" -> <<ShowdownEvent(a[1], a[2])>>
         [] raw.label = "canceled" -> <<CanceledEvent(a[1], a[2])>>
         [] raw.label = "end" -> <<EndEvent(a[1], a[2])>>
         [] OTHER -> <<>>

-----------------------------------------------------------------------------
(* GenericPokerEventGenerator.handle_GameEvent.  The body runs in this
   order: the players (names and chips looked up per seat), the betting
   structure, the two context attributes, then the HandStarted event. *)

handle_GameEvent(e, ctx) ==
    LET seats == 1..Len(e.players)
        unnamed == {i \in seats : e.players[i] \notin DOMAIN ctx.player_names}
        chipless == {i \in seats : e.players[i] \notin DOMAIN e.player_chips}
        parsed == parse_betting_structure(e.betting_structure)
        ctx2 == SetAttr(SetAttr(ctx, "small_blind", parsed.value.small_blind),
                        "big_blind", parsed.value.big_blind)
    IN IF e.players # <<>> /\ "player_names" \notin ctx.attrs
       THEN Outcome(<<>>, ctx, "AttributeError: player_names")
       ELSE IF unnamed \cup chipless # {}
       THEN LET i == CHOOSE x \in unnamed \cup chipless :
                        \A y \in unnamed \cup chipless : x <= y
            IN Outcome(<<>>, ctx, IF i \in unnamed
                                  THEN "KeyError: player_names"
                                  ELSE "KeyError: player_chips")
       ELSE IF parsed.error # ""
       THEN Outcome(<<>>, ctx, parsed.error)
       ELSE IF "hand_timestamp" \notin ctx.attrs
       THEN Outcome(<<>>, ctx2, "AttributeError: hand_timestamp")
       ELSE Outcome(
              <<HandStarted(e.hand_id, ctx.hand_timestamp, e.variant,
                            parsed.value,
                            [i \in seats |->
                                Player(e.players[i],
                                       ctx.player_names[e.players[i]],
                                       i - 1,
                                       e.player_chips[e.players[i]])])>>,
              ctx2, "")

-----------------------------------------------------------------------------
RoundShowsFirstCard(e, ctx) ==
    LET community_cards == pokercards_adapter(e.community_cards)
        street ==
            CASE e.round_name = "pre-flop" -> <<PreflopRoundStarted>>
              [] e.round_name = "flop" -> <<FlopDealt(community_cards)>>
              [] e.round_name = "turn" /\ community_cards # <<>> ->
                   <<TurnDealt(Head(community_cards))>>
              [] e.round_name = "river" /\ community_cards # <<>> ->
                   <<RiverDealt(Head(community_cards))>>
              [] OTHER -> <<>>
        order == SetToSeq(DOMAIN e.dealt_cards)
    IN Outcome(street \o [i \in 1..Len(order) |->
                             CardsDealtToPlayer(
                                 order[i],
                                 pokercards_adapter(e.dealt_cards[order[i]]))],
               ctx, "")

(* GenericPokerEventGenerator.handle_RoundEvent.  dealt_cards is a dict; an
   empty dict and None are both false. *)

handle_RoundEvent(e, ctx) ==
    LET community_cards == pokercards_adapter(e.community_cards)
        none == [events |-> <<>>, error |-> ""]
        street ==
            CASE e.round_name = "pre-flop" ->
                   [none EXCEPT !.events = <<PreflopRoundStarted>>]
              [] e.round_name = "flop" ->
                   [none EXCEPT !.events = <<FlopDealt(community_cards)>>]
              [] e.round_name = "turn" ->
                   IF community_cards = <<>>
                   THEN [none EXCEPT !.error = "IndexError: community_cards"]
                   ELSE [none EXCEPT
                           !.events = <<TurnDealt(Last(community_cards))>>]
              [] e.round_name = "river" ->
                   IF community_cards = <<>>
                   THEN [none EXCEPT !.error = "IndexError: community_cards"]
                   ELSE [none EXCEPT
                           !.events = <<RiverDealt(Last(community_cards))>>]
              [] OTHER -> none
        order == SetToSeq(DOMAIN e.dealt_cards)
        dealt == [i \in 1..Len(order) |->
                     CardsDealtToPlayer(
                         order[i], pokercards_adapter(e.dealt_cards[order[i]]))]
    IN IF street.error # "" THEN Outcome(<<>>, ctx, street.error)
       ELSE Outcome(street.events \o dealt, ctx, "")

-----------------------------------------------------------------------------
(* GenericPokerEventGenerator.handle_BlindEvent.  The keyword arguments of
   PlayerPostedBigAndSmallBlinds are small_blind_amount = dead_amount and
   big_blind_amount = blind_amount; big_blind/2 is Python 2 integer division. *)

BlindSmallFirst(e, ctx) ==
    IF ~({"small_blind", "big_blind"} \subseteq ctx.attrs)
    THEN Outcome(<<>>, ctx, "AttributeError: small_blind")
    ELSE IF e.blind_amount = ctx.small_blind
            \/ e.blind_amount <= ctx.big_blind \div 2
    THEN Outcome(<<PlayerPostedSmallBlind(e.player_id, e.blind_amount)>>, ctx, "")
    ELSE IF e.dead_amount = ctx.small_blind /\ e.blind_amount = ctx.big_blind
    THEN Outcome(<<PlayerPostedBigAndSmallBlinds(
                     e.player_id, e.blind_amount, e.dead_amount)>>, ctx, "")
    ELSE IF e.blind_amount <= ctx.big_blind
    THEN Outcome(<<PlayerPostedBigBlind(e.player_id, e.blind_amount)>>, ctx, "")
    ELSE Outcome(<<>>, ctx, "")

handle_BlindEvent(e, ctx) ==
    IF "small_blind" \notin ctx.attrs
    THEN Outcome(<<>>, ctx, "AttributeError: small_blind")
    ELSE IF e.dead_amount = ctx.small_blind /\ "big_blind" \notin ctx.attrs
    THEN Outcome(<<>>, ctx, "AttributeError: big_blind")
    ELSE IF e.dead_amount = ctx.small_blind /\ e.blind_amount = ctx.big_blind
    THEN Outcome(<<PlayerPostedBigAndSmallBlinds(
                     e.player_id, e.blind_amount, e.dead_amount)>>, ctx, "")
    ELSE IF e.blind_amount = ctx.small_blind
    THEN Outcome(<<PlayerPostedSmallBlind(e.player_id, e.blind_amount)>>, ctx, "")
    ELSE IF "big_blind" \notin ctx.attrs
    THEN Outcome(<<>>, ctx, "AttributeError: big_blind")
    ELSE IF e.blind_amount <= ctx.big_blind \div 2
    THEN Outcome(<<PlayerPostedSmallBlind(e.player_id, e.blind_amount)>>, ctx, "")
    ELSE IF e.blind_amount <= ctx.big_blind
    THEN Outcome(<<PlayerPostedBigBlind(e.player_id, e.blind_amount)>>, ctx, "")
    ELSE Outcome(<<>>, ctx, "")

-----------------------------------------------------------------------------
(* The one-line handlers *)

handle_AnteEvent(e, ctx) ==
    Outcome(<<PlayerPostedAnte(e.player_id, e.ante_amount)>>, ctx, "")

handle_AllInEvent(e, ctx) ==
    Outcome(<<PlayerWentAllIn(e.player_id)>>, ctx, "")

handle_CallEvent(e, ctx) ==
    Outcome(<<PlayerCalled(e.player_id, e.call_amount)>>, ctx, "")

handle_CheckEvent(e, ctx) ==
    Outcome(<<PlayerChecked(e.player_id)>>, ctx, "")

handle_FoldEvent(e, ctx) ==
    Outcome(<<PlayerFolded(e.player_id)>>, ctx, "")

handle_RaiseEvent(e, ctx) ==
    Outcome(<<PlayerRaised(e.player_id, e.raise_by_amount, e.raise_to_amount)>>,
            ctx, "")

CanceledReturnsFirst(e, ctx) ==
    Outcome(<<UncalledBetReturnedToPlayer(e.player_id, e.returned_amount),
              HandCanceled>>,
            ctx, "")

CanceledWithoutNotice(e, ctx) ==
    Outcome(<<UncalledBetReturnedToPlayer(e.player_id, e.returned_amount)>>,
            ctx, "")

handle_CanceledEvent(e, ctx) ==
    Outcome(<<HandCanceled,
              UncalledBetReturnedToPlayer(e.player_id, e.returned_amount)>>,
            ctx, "")

-----------------------------------------------------------------------------
(* GenericPokerEventGenerator.handle_ShowdownEvent *)

ConvertPlayerCards(player_cards) ==
    [player_id \in DOMAIN player_cards |->
        pokercards_adapter(player_cards[player_id])]

ShowdownKeepsOldCards(e, ctx) ==
    IF Cardinality(DOMAIN e.player_cards) > 1
    THEN Outcome(<<Showdown>>,
                 SetAttr(ctx, "player_cards", ConvertPlayerCards(e.player_cards)),
                 "")
    ELSE Outcome(<<>>, ctx, "")

ShowdownForAnyPlayer(e, ctx) ==
    LET ctx2 == SetAttr(ctx, "player_cards", ConvertPlayerCards(e.player_cards))
    IN IF Cardinality(DOMAIN e.player_cards) >= 1
       THEN Outcome(<<Showdown>>, ctx2, "")
       ELSE Outcome(<<>>, ctx2, "")

handle_ShowdownEvent(e, ctx) ==
    LET ctx2 == SetAttr(ctx, "player_cards", ConvertPlayerCards(e.player_cards))
    IN IF Cardinality(DOMAIN e.player_cards) > 1
       THEN Outcome(<<Showdown>>, ctx2, "")
       ELSE Outcome(<<>>, ctx2, "")

-----------------------------------------------------------------------------
(* Generator.generate_from_event for every event but End: the handler named
   after the event's class, or nothing when there is none (getattr raises
   AttributeError before any handler code runs).  An exception inside a
   handler is raised while the caller consumes the generator and escapes. *)

generate_from_event(e, ctx) ==
    CASE e.cls = "GameEvent" -> handle_GameEvent(e, ctx)
      [] e.cls = "RoundEvent" -> handle_RoundEvent(e, ctx)
      [] e.cls = "BlindEvent" -> handle_BlindEvent(e, ctx)
      [] e.cls = "AnteEvent" -> handle_AnteEvent(e, ctx)
      [] e.cls = "AllInEvent" -> handle_AllInEvent(e, ctx)
      [] e.cls = "CallEvent" -> handle_CallEvent(e, ctx)
      [] e.cls = "CheckEvent" -> handle_CheckEvent(e, ctx)
      [] e.cls = "FoldEvent" -> handle_FoldEvent(e, ctx)
      [] e.cls = "RaiseEvent" -> handle_RaiseEvent(e, ctx)
      [] e.cls = "ShowdownEvent" -> handle_ShowdownEvent(e, ctx)
      [] e.cls = "CanceledEvent" -> handle_CanceledEvent(e, ctx)
      [] OTHER -> Outcome(<<>>, ctx, "")

-----------------------------------------------------------------------------
(* GenericPokerEventGenerator.handle_EndEvent and its local functions *)

MaxInt == 2147483647

NoBestHands == [is_None |-> TRUE, hands |-> <<>>]

(* The hands of one player: serial2best[player_id], a dict with the keys
   'hi' and/or 'low'. *)
ConvertPlayerBest(hands) ==
    LET hi == IF "hi" \in hands.keys
              THEN pokereval_best_hand_adapter(hands.hi)
              ELSE [hand |-> NoneHand, error |-> ""]
        low == IF "low" \in hands.keys
               THEN pokereval_best_hand_adapter(hands.low)
               ELSE [hand |-> NoneHand, error |-> ""]
    IN [best |-> BestHands(hi.hand, low.hand),
        error |-> IF hi.error # "" THEN hi.error ELSE low.error]

(* The mutant: a leading record without serial2best read as a showdown in
   which every player holds a hand *)
GetBestHandsAssumed(state) ==
    [best_hands |->
        [is_None |-> FALSE,
         hands |-> [player_id \in PLAYERS |->
                       BestHands(Hand("HighCard", <<>>, 0), NoneHand)]],
     error |-> ""]

get_best_hands(state) ==
    IF "serial2best" \notin state.keys
    THEN [best_hands |-> NoBestHands, error |-> ""]
    ELSE LET conv == [player_id \in DOMAIN state.serial2best |->
                         ConvertPlayerBest(state.serial2best[player_id])]
             failed == {player_id \in DOMAIN conv : conv[player_id].error # ""}
         IN IF failed # {}
            THEN [best_hands |-> NoBestHands,
                  error |-> conv[CHOOSE player_id \in failed : TRUE].error]
            ELSE [best_hands |->
                     [is_None |-> FALSE,
                      hands |-> [player_id \in DOMAIN conv |->
                                    conv[player_id].best]],
                  error |-> ""]

(* "if best_hands": None and the empty dict are both false *)
Truthy(bh) == ~bh.is_None /\ DOMAIN bh.hands # {}

(* player_has_best_high_hand / player_has_best_low_hand:
       hand and hand.is_better_than(best) or hand == best
   With hand = None the left operand of "or" is None and "None == best"
   calls best.__eq__(None), which reads None.pokereval_ranking. *)
player_has_best_hand(h, best_hand) ==
    IF IsNone(h) THEN "AttributeError: pokereval_ranking"
    ELSE IF is_better_than(h, best_hand) \/ hand_eq(h, best_hand)
    THEN "True"
    ELSE "False"

ShowWhateverWasShown(player_id, player_hands, best_high_hand, best_low_hand, showed) ==
    LET high == player_has_best_hand(player_hands.high, best_high_hand)
    IN IF high # "False" THEN high
       ELSE player_has_best_hand(player_hands.low, best_low_hand)

player_should_show(player_id, player_hands, best_high_hand, best_low_hand, showed) ==
    IF player_id \in showed THEN "False"
    ELSE LET high == player_has_best_hand(player_hands.high, best_high_hand)
         IN IF high # "False" THEN high
            ELSE player_has_best_hand(player_hands.low, best_low_hand)

CollectSidePotOnly(player_id, amount, side_pot_index, main_index) ==
    PlayerCollectedFromSidePot(player_id, amount, side_pot_index)

CollectMainPotOnly(player_id, amount, side_pot_index, main_index) ==
    PlayerCollectedFromMainPot(player_id, amount)

(* player_collected_from_pot as chosen at the top of the record loop *)
player_collected_from_pot(player_id, amount, side_pot_index, main_index) ==
    IF side_pot_index = main_index
    THEN PlayerCollectedFromMainPot(player_id, amount)
    ELSE PlayerCollectedFromSidePot(player_id, amount, side_pot_index)

(* The loop over pot.eligible_players.  acc holds the events yielded so far,
   the two closure sets and the exception that ended the loop. *)
RECURSIVE ShowOrMuck(_, _, _, _)
ShowOrMuck(eligible, bh, ctx, acc) ==
    IF eligible = <<>> \/ acc.error # "" THEN acc
    ELSE
      LET player_id == Head(eligible)
          best_high_hand == Hand("HighHand", <<>>, -1)
          best_low_hand == Hand("LowHand", <<>>, MaxInt)
      IN IF player_id \notin DOMAIN bh.hands
         THEN [acc EXCEPT !.error = "KeyError: best_hands"]
         ELSE
           LET player_hands == bh.hands[player_id]
               show == player_should_show(player_id, player_hands,
                                          best_high_hand, best_low_hand,
                                          acc.showed)
               has_cards == /\ "player_cards" \in ctx.attrs
                            /\ player_id \in DOMAIN ctx.player_cards
               no_cards == IF "player_cards" \in ctx.attrs
                           THEN "KeyError: player_cards"
                           ELSE "AttributeError: player_cards"
           IN IF show \notin {"True", "False"}
              THEN [acc EXCEPT !.error = show]
              ELSE IF show = "True"
              THEN IF ~has_cards THEN [acc EXCEPT !.error = no_cards]
                   ELSE ShowOrMuck(Tail(eligible), bh, ctx,
                          [acc EXCEPT
                             !.events = Append(@, PlayerShowedHand(
                                 player_id, ctx.player_cards[player_id],
                                 player_hands.high, player_hands.low)),
                             !.showed = @ \cup {player_id}])
              ELSE IF player_id \notin acc.mucked
              THEN IF ~has_cards THEN [acc EXCEPT !.error = no_cards]
                   ELSE ShowOrMuck(Tail(eligible), bh, ctx,
                          [acc EXCEPT
                             !.events = Append(@, PlayerMuckedHand(
                                 player_id, ctx.player_cards[player_id],
                                 player_hands.high, player_hands.low)),
                             !.mucked = @ \cup {player_id}])
              ELSE ShowOrMuck(Tail(eligible), bh, ctx, acc)

CollectedEvents(winners, side_pot_index, main_index) ==
    LET order == SetToSeq(DOMAIN winners)
    IN [i \in 1..Len(order) |->
           player_collected_from_pot(order[i], winners[order[i]],
                                     side_pot_index, main_index)]

resolved_pot_events(pot, bh, side_pot_index, main_index, ctx, showed, mucked) ==
    LET start == [events |-> <<>>, showed |-> showed, mucked |-> mucked,
                  error |-> ""]
        shown == IF Truthy(bh)
                 THEN ShowOrMuck(pot.eligible_players, bh, ctx, start)
                 ELSE start
    IN IF shown.error # "" THEN shown
       ELSE [shown EXCEPT
               !.events = @ \o CollectedEvents(pot.winners, side_pot_index,
                                               main_index)]

RakeDefaultsToNone(state) ==
    IF "serial2rake" \in state.keys
    THEN [rake |-> state.serial2rake, error |-> ""]
    ELSE [rake |-> <<>>, error |-> ""]

get_player_rake(state) ==
    IF "serial2rake" \in state.keys
    THEN [rake |-> state.serial2rake, error |-> ""]
    ELSE [rake |-> <<>>, error |-> "KeyError: serial2rake"]

resolved_pot(resolve_pot_event) ==
    ResolvedPot(resolve_pot_event.pot, resolve_pot_event.serials,
                resolve_pot_event.serial2share)

ChipsLeftLiteral == <<"chips_left">>

(* The body of the loop "for event in event.showdown_stack[1:]" for one
   record: [events, showed, mucked, error, pots].  The left_over branch
   passes the list literal ['chips_left'] as the amount. *)
ProcessRecord(r, bh, main_index, ctx, showed, mucked, resolved) ==
    LET side_pot_index == Len(resolved)
        same == [events |-> <<>>, showed |-> showed, mucked |-> mucked,
                 error |-> "", pots |-> resolved]
    IN CASE r.type = "resolve" ->
              LET pot == resolved_pot(r)
                  res == resolved_pot_events(pot, bh, side_pot_index,
                                             main_index, ctx, showed, mucked)
              IN [events |-> res.events, showed |-> res.showed,
                  mucked |-> res.mucked, error |-> res.error,
                  pots |-> IF res.error = "" THEN <<pot>> \o resolved
                           ELSE resolved]
         [] r.type = "uncalled" ->
              [same EXCEPT !.events =
                  <<UncalledBetReturnedToPlayer(r.serial, r.uncalled)>>]
         [] r.type = "left_over" ->
              [same EXCEPT !.events =
                  <<player_collected_from_pot(r.serial, ChipsLeftLiteral,
                                              side_pot_index, main_index)>>]
         [] OTHER -> same

-----------------------------------------------------------------------------
(* Steps shared by all specifications *)

EndIdle ==
    /\ end_state = [keys |-> {}]
    /\ best_hands = NoBestHands
    /\ main_pot_index = 0
    /\ pots = <<>>
    /\ players_that_showed = {}
    /\ players_that_mucked = {}
    /\ pending = <<>>
    /\ stack = <<>>
    /\ rec_events = <<>>

NoEvent == [cls |-> "None"]

PokerEngineHand(hand_description, hand_timestamp, player_names) ==
    [hand_description |-> hand_description, hand_timestamp |-> hand_timestamp,
     player_names |-> player_names]

(* No hand history has been produced *)
NoHistory == [lines |-> <<>>, error |-> "none"]

NoHand == PokerEngineHand(<<>>, 0, <<>>)

(* One step of Generator.generate: the handler's events are appended to the
   output; an exception stops the generation. *)
Handle(e, res, nextpc) ==
    /\ event' = e
    /\ emitted' = res.events
    /\ out' = out \o res.events
    /\ context' = res.context
    /\ error' = res.error
    /\ pc' = IF res.error # "" THEN "error" ELSE nextpc

ShowedSoFar == players_that_showed

(* set(): each call of handle_EndEvent creates its two sets *)
NewSet == {}

(* handle_EndEvent is a generator that the caller consumes lazily: the
   events of a record reach the caller before the next record is looked at.
   EndBegin is the code before the loop: end_state, best_hands, pots,
   main_pot_index. *)
EndBegin(e) ==
    LET state == Head(e.showdown_stack)
        bh == get_best_hands(state)
        err == IF bh.error # "" THEN bh.error
               ELSE IF "side_pots" \notin state.keys THEN "KeyError: side_pots"
               ELSE ""
    IN /\ event' = e
       /\ emitted' = <<>>
       /\ end_state' = state
       /\ best_hands' = bh.best_hands
       /\ pots' = <<>>
       /\ players_that_showed' = NewSet
       /\ players_that_mucked' = NewSet
       /\ main_pot_index' = IF err = "" THEN Len(state.side_pots.pots) - 1 ELSE 0
       /\ pending' = Tail(e.showdown_stack)
       /\ stack' = <<>>
       /\ rec_events' = <<>>
       /\ error' = err
       /\ pc' = IF err # "" THEN "error" ELSE "records"
       /\ UNCHANGED <<context, out>>

(* One iteration of the loop over showdown_stack[1:] *)
RecordStep ==
    /\ pc = "records"
    /\ pending # <<>>
    /\ LET r == Head(pending)
           res == ProcessRecord(r, best_hands, main_pot_index, context,
                                players_that_showed, players_that_mucked, pots)
       IN /\ emitted' = res.events
          /\ out' = out \o res.events
          /\ players_that_showed' = res.showed
          /\ players_that_mucked' = res.mucked
          /\ pots' = res.pots
          /\ stack' = Append(stack, r)
          /\ rec_events' = Append(rec_events, res.events)
          /\ error' = res.error
          /\ pc' = IF res.error # "" THEN "error" ELSE "records"
    /\ pending' = Tail(pending)
    /\ UNCHANGED <<context, event, callVars, todo, end_state,
                   best_hands, main_pot_index>>

(* The code after the loop *)
EndFinish ==
    /\ pc = "records"
    /\ pending = <<>>
    /\ LET player_rake == get_player_rake(end_state)
       IN /\ emitted' = IF player_rake.error = ""
                        THEN <<HandEnded(pots, player_rake.rake)>> ELSE <<>>
          /\ out' = out \o emitted'
          /\ error' = player_rake.error
          /\ pc' = IF player_rake.error # "" THEN "error"
                   ELSE IF todo # <<>> THEN "feed"
                   ELSE "done"
    /\ UNCHANGED <<context, event, callVars, todo, endVars>>

-----------------------------------------------------------------------------
(* Blind classification on its own: a context with configured blinds, then
   Blind events with every posted and dead amount. *)

InitBlind ==
    /\ pc = "blinds"
    /\ \E s \in 0..MaxBlind, b \in 0..MaxBlind :
          context = SetAttr(SetAttr(EmptyContext, "small_blind", s),
                            "big_blind", b)
    /\ out = <<>>
    /\ event = NoEvent
    /\ emitted = <<>>
    /\ error = ""
    /\ pokerengine_hand = NoHand
    /\ runs = <<>>
    /\ history = NoHistory
    /\ todo = <<>>
    /\ EndIdle

Blind ==
    /\ pc = "blinds"
    /\ Len(out) < MaxBlindEvents
    /\ \E p \in PLAYERS, a \in 0..(MaxBlind + 1), d \in 0..MaxBlind :
          LET e == BlindEvent(p, a, d)
          IN Handle(e, handle_BlindEvent(e, context), "blinds")
    /\ UNCHANGED <<callVars, todo, endVars>>

NextBlind == Blind

SpecBlind == InitBlind /\ [][NextBlind]_vars

-----------------------------------------------------------------------------
(* The end of a hand with every input the engine may supply: a Showdown
   event, then an End event whose showdown stack is a leading game_state
   record followed by any sequence of at most MaxRecords records. *)

(* The hole cards of the two players (face down, as the engine deals them) *)
HoleCards(player_id) ==
    IF player_id = 22 THEN PokerCards(<<231, 201>>)
    ELSE IF player_id = 23 THEN PokerCards(<<234, 211>>)
    ELSE PokerCards(<<200, 220>>)

(* A player's entry of serial2best: 'hi' alone, 'hi' and 'low' in a hi/lo
   game (a 'Nothing' low when no low qualifies), 'low' alone in a low game. *)
HiOnly ==
    [keys |-> {"hi"},
     hi |-> PokerevalHand(694117, "NoPair", <<49, 9, 7, 6, 31>>),
     low |-> PokerevalHand(0, "Nothing", <<>>)]

HiPair ==
    [keys |-> {"hi"},
     hi |-> PokerevalHand(17147696, "OnePair", <<31, 18, 49, 7, 16>>),
     low |-> PokerevalHand(0, "Nothing", <<>>)]

HiAndLow ==
    [keys |-> {"hi", "low"},
     hi |-> PokerevalHand(694100, "NoPair", <<36, 9, 7, 31, 4>>),
     low |-> PokerevalHand(26821302, "NoPair", <<5, 4, 3, 2, 0>>)]

HiNoLow ==
    [keys |-> {"hi", "low"},
     hi |-> PokerevalHand(51016960, "Trips", <<49, 36, 23, 7, 31>>),
     low |-> PokerevalHand(268435455, "Nothing", <<>>)]

LowOnly ==
    [keys |-> {"low"},
     hi |-> PokerevalHand(0, "Nothing", <<>>),
     low |-> PokerevalHand(26821302, "NoPair", <<5, 4, 3, 2, 0>>)]

PlayerBestOptions == {HiOnly, HiPair, HiAndLow, HiNoLow, LowOnly}

Serial2Best(showdown_players) == [showdown_players -> PlayerBestOptions]

SidePots(n) == [pots |-> [i \in 1..n |-> <<0, 0>>]]

(* serial2rake: the players of the showdown (player 23 when the Showdown
   event named nobody) are charged one chip less than a winner's share *)
RakeOptions(showdown_players, a) ==
    {[player_id \in (IF showdown_players = {} THEN {23} ELSE showdown_players)
        |-> a - 1]}

(* The leading game_state records: serial2best names the players of the
   showdown, or is missing (a fold win). *)
GameState(n, rake) ==
    [keys |-> {"side_pots", "serial2rake"}, serial2best |-> <<>>,
     side_pots |-> SidePots(n), serial2rake |-> rake]

GameStateWithBest(n, rake, best) ==
    [keys |-> {"serial2best", "side_pots", "serial2rake"}, serial2best |-> best,
     side_pots |-> SidePots(n), serial2rake |-> rake]

EndStates(showdown_players, a) ==
    {GameState(n, rake) :
        n \in 1..MaxPots, rake \in RakeOptions(showdown_players, a)}
    \cup
    {GameStateWithBest(n, rake, best) :
        n \in 1..MaxPots, rake \in RakeOptions(showdown_players, a),
        best \in Serial2Best(showdown_players)}

(* Lists of distinct players *)
PlayerLists(S) ==
    {l \in UNION {[1..n -> S] : n \in 1..Cardinality(S)} :
        \A i, j \in 1..Len(l) : i # j => l[i] # l[j]}

(* The players a resolve record may name: those of serial2best when there is
   best-hand information, any player otherwise. *)
EligiblePlayers(state) ==
    IF "serial2best" \in state.keys /\ DOMAIN state.serial2best # {}
    THEN DOMAIN state.serial2best
    ELSE PLAYERS

ResolveRecord(serials, pot, serial2share) ==
    [type |-> "resolve", serials |-> serials, pot |-> pot,
     serial2share |-> serial2share]

(* The resolve records of a hand whose winners each take a chips: every
   eligible list, every set of winners among the eligible players *)
ResolveRecordsFor(l, a) ==
    {ResolveRecord(l, a * Cardinality(W), [player_id \in W |-> a]) :
        W \in SUBSET Range(l) \ {{}}}

ResolveRecords(S, a) == UNION {ResolveRecordsFor(l, a) : l \in PlayerLists(S)}

UncalledRecords(a) == {[type |-> "uncalled", serial |-> 22, uncalled |-> a]}

LeftOverRecords(a) == {[type |-> "left_over", serial |-> 23, chips_left |-> a]}

ShowdownRecords(state, a) ==
    ResolveRecords(EligiblePlayers(state), a) \cup UncalledRecords(a)
        \cup LeftOverRecords(a)

ShowdownStacks(state, a) ==
    UNION {[1..n -> ShowdownRecords(state, a)] : n \in 0..MaxRecords}

Init ==
    /\ pc = "showdown"
    /\ context = EmptyContext
    /\ out = <<>>
    /\ event = NoEvent
    /\ emitted = <<>>
    /\ error = ""
    /\ pokerengine_hand = NoHand
    /\ runs = <<>>
    /\ history = NoHistory
    /\ todo = <<>>
    /\ EndIdle

ShowdownStep ==
    /\ pc = "showdown"
    /\ \E S \in SUBSET PLAYERS :
          LET e == ShowdownEvent(<<>>, [player_id \in S |-> HoleCards(player_id)])
          IN Handle(e, handle_ShowdownEvent(e, context), "end")
    /\ UNCHANGED <<callVars, todo, endVars>>

EndStep ==
    /\ pc = "end"
    /\ \E a \in 1..MaxShare :
          \E state \in EndStates(DOMAIN context.player_cards, a) :
              \E records \in ShowdownStacks(state, a) :
                  EndBegin(EndEvent(<<>>, <<state>> \o records))
    /\ UNCHANGED <<callVars, todo>>

Next ==
    \/ ShowdownStep
    \/ EndStep
    \/ RecordStep
    \/ EndFinish

Spec == Init /\ [][Next]_vars

-----------------------------------------------------------------------------
(* The Showdown event with every shape of hole cards (hidden, shown with an
   empty slot, none), followed by an End event with one pot. *)

HoleCardOptions ==
    {PokerCards(<<231, 201>>), PokerCards(<<39, NOCARD>>), PokerCards(<<>>)}

ShowdownAny ==
    /\ pc = "showdown"
    /\ \E S \in SUBSET PLAYERS :
          \E cards \in [S -> HoleCardOptions] :
              LET e == ShowdownEvent(<<>>, cards)
              IN Handle(e, handle_ShowdownEvent(e, context), "end")
    /\ UNCHANGED <<callVars, todo, endVars>>

EndOnePot ==
    /\ pc = "end"
    /\ \E a \in 1..MaxShare :
          \E state \in EndStates(DOMAIN context.player_cards, a) :
              \E r \in ResolveRecords(EligiblePlayers(state), a) :
                  /\ Len(state.side_pots.pots) = 1
                  /\ EndBegin(EndEvent(<<>>, <<state, r>>))
    /\ UNCHANGED <<callVars, todo>>

NextShowdown ==
    \/ ShowdownAny
    \/ EndOnePot
    \/ RecordStep
    \/ EndFinish

SpecShowdown == Init /\ [][NextShowdown]_vars

-----------------------------------------------------------------------------
(* generate_hand_history on whole hands: the raw records of a heads-up hand
   that ends before the flop because one player folds. *)

Raw(label, args) == [label |-> label, args |-> args]

Structures ==
    {<<".", "1", "0", "-", ".", "2", "5", "-", "n", "o", "-", "l", "i", "m", "i", "t">>,
     <<"a", "n", "t", "e", "-", "1", "0", "-", "2", "0", "-", "l", "i", "m", "i", "t">>,
     <<"1", "-", "2", "-", "p", "o", "t", "-", "l", "i", "m", "i", "t">>}

SmallBlindPostings == {10, 12}

FoldWinHand(structure, small_amount, folder) ==
    LET winner == CHOOSE p \in PLAYERS : p # folder
        total == small_amount + 25
        state == [keys |-> {"serial2delta", "player_list", "serial2rake", "pot",
                            "serial2share", "type", "foldwin", "side_pots"},
                  serial2best |-> <<>>,
                  side_pots |-> [pots |-> <<<<total, total>>>>],
                  serial2rake |-> [player_id \in {winner} |-> 0]]
        resolve == ResolveRecord(<<winner>>, total,
                                 [player_id \in {winner} |-> total])
    IN PokerEngineHand(
         <<Raw("game", <<0, 174, 4, 194, "holdem", structure, <<22, 23>>, 0,
                         (22 :> 1262) @@ (23 :> 1237)>>),
           Raw("position", <<0>>),
           Raw("blind", <<22, small_amount, 0>>),
           Raw("position", <<1>>),
           Raw("blind", <<23, 25, 0>>),
           Raw("position", <<-1>>),
           Raw("round", <<"pre-flop", PokerCards(<<>>),
                          [player_id \in PLAYERS |-> HoleCards(player_id)]>>),
           Raw("position", <<0>>),
           Raw("fold", <<folder>>),
           Raw("position", <<1>>),
           Raw("position", <<-1>>),
           Raw("showdown", <<<<>>,
                             [player_id \in {winner} |-> HoleCards(player_id)]>>),
           Raw("end", <<<<winner>>, <<state, resolve>>>>)>>,
         1310087430,
         (22 :> "Alice") @@ (23 :> "Bob"))

(* generate_hand_history: the context it builds for the generic generator *)
HandContext(h) ==
    SetAttr(SetAttr(EmptyContext, "player_names", h.player_names),
            "hand_timestamp", h.hand_timestamp)

InitHand ==
    /\ pc = "feed"
    /\ \E structure \in Structures, small_amount \in SmallBlindPostings,
          folder \in PLAYERS :
          pokerengine_hand = FoldWinHand(structure, small_amount, folder)
    /\ context = HandContext(pokerengine_hand)
    /\ runs = <<>>
    /\ history = NoHistory
    /\ todo = pokerengine_hand.hand_description
    /\ out = <<>>
    /\ event = NoEvent
    /\ emitted = <<>>
    /\ error = ""
    /\ EndIdle

(* The two chained generators consume one raw record *)
Feed ==
    /\ pc = "feed"
    /\ todo # <<>>
    /\ LET typed == EVENT_MAP(Head(todo))
           nextpc == IF Tail(todo) = <<>> THEN "done" ELSE "feed"
       IN IF typed = <<>>
          THEN /\ emitted' = <<>>
               /\ pc' = nextpc
               /\ UNCHANGED <<event, context, out, error, endVars>>
          ELSE IF typed[1].cls = "EndEvent"
          THEN EndBegin(typed[1])
          ELSE /\ Handle(typed[1], generate_from_event(typed[1], context), nextpc)
               /\ UNCHANGED endVars
    /\ todo' = Tail(todo)
    /\ UNCHANGED callVars

NextHand ==
    \/ Feed
    \/ RecordStep
    \/ EndFinish

SpecHand == InitHand /\ [][NextHand]_vars

-----------------------------------------------------------------------------
(* C1: a Blind event with posted amount p and dead amount d, under configured
   blinds (s, b), yields PlayerPostedBigAndSmallBlinds if d = s and p = b;
   otherwise PlayerPostedSmallBlind if p = s or p is at most half of b;
   otherwise PlayerPostedBigBlind if p <= b; otherwise nothing; never more
   than one event. *)
BlindRule(p, d, s, b) ==
    IF d = s /\ p = b THEN "PlayerPostedBigAndSmallBlinds"
    ELSE IF p = s \/ 2 * p <= b THEN "PlayerPostedSmallBlind"
    ELSE IF p <= b THEN "PlayerPostedBigBlind"
    ELSE "nothing"

C1_BlindClassification ==
    event.cls = "BlindEvent" =>
        LET kind == BlindRule(event.blind_amount, event.dead_amount,
                              context.small_blind, context.big_blind)
        IN /\ error = ""
           /\ Len(emitted) <= 1
           /\ (kind = "nothing") <=> (emitted = <<>>)
           /\ emitted # <<>> =>
                /\ emitted[1].cls = kind
                /\ emitted[1].player_id = event.player_id
                /\ IF kind = "PlayerPostedBigAndSmallBlinds"
                   THEN /\ emitted[1].big_blind_amount = event.blind_amount
                        /\ emitted[1].small_blind_amount = event.dead_amount
                   ELSE emitted[1].amount = event.blind_amount

(* A posting that is both the configured small blind and, with its dead
   amount, a big-and-small posting: the first rule wins. *)
C1_Witness ==
    /\ event.cls = "BlindEvent"
    /\ event.blind_amount = context.small_blind
    /\ event.blind_amount = context.big_blind
    /\ event.dead_amount = context.small_blind
    /\ Len(emitted) = 1
    /\ emitted[1].cls = "PlayerPostedBigAndSmallBlinds"

-----------------------------------------------------------------------------
(* Observations on the end of a hand *)

ShowClasses == {"PlayerShowedHand", "PlayerMuckedHand"}

CollectedClasses == {"PlayerCollectedFromMainPot", "PlayerCollectedFromSidePot"}

(* The End event is being resolved or its resolution is over *)
InEnd == event.cls = "EndEvent"

(* The events of the End event are complete: HandEnded was produced or an
   exception escaped *)
EndOver == InEnd /\ pc \in {"done", "error"}

HasBestInfo == "serial2best" \in end_state.keys

(* The main-pot index the leading record declares *)
DeclaredMain == Len(end_state.side_pots.pots) - 1

(* The records that follow the leading record of the End event *)
AllRecords == Tail(event.showdown_stack)

IsResolve(k) == AllRecords[k].type = "resolve"

ResolveRecordsSeen == SelectSeq(stack, LAMBDA r : r.type = "resolve")

(* 0-based index of record k among the resolve records *)
ResolveIndex(k) == Cardinality({j \in 1..(k - 1) : IsResolve(j)})

(* 0-based index of record k among the resolve records that are not at the
   main-pot index *)
SideRank(k) ==
    Cardinality({j \in 1..(k - 1) : IsResolve(j) /\ ResolveIndex(j) # DeclaredMain})

(* The events record k produced; none when the resolution ended before it *)
EventsOf(k) == IF k <= Len(rec_events) THEN rec_events[k] ELSE <<>>

CollectedOf(k) == SelectEvents(EventsOf(k), CollectedClasses)

ShowedOf(k) == SelectEvents(EventsOf(k), {"PlayerShowedHand"})

ShownBefore(k) ==
    {e.player_id : e \in UNION {Range(ShowedOf(j)) : j \in 1..(k - 1)}}

EndEvents ==
    Flatten(rec_events) \o (IF pc = "done" THEN <<Last(out)>> ELSE <<>>)

-----------------------------------------------------------------------------
(* C2: across all resolve records of one End event no player receives both
   a PlayerShowedHand and a PlayerMuckedHand event, and each player receives
   at most one event of these two kinds. *)
C2_AtMostOneShowOrMuck ==
    InEnd =>
        \A p \in PLAYERS :
            Len(SelectSeq(Flatten(rec_events),
                          LAMBDA e : e.cls \in ShowClasses /\ e.player_id = p)) <= 1

-----------------------------------------------------------------------------
(* C3 as claimed: the resolve record whose index among the resolve records
   is the declared number of pots minus one has its collected events
   attributed to the main pot; every other resolve record is a side pot whose
   index counts from 0 among the side pots themselves. *)
C3_SideIndexAmongSidePots ==
    InEnd =>
        \A k \in 1..Len(stack) : IsResolve(k) =>
            \A i \in 1..Len(CollectedOf(k)) :
                LET e == CollectedOf(k)[i]
                IN IF ResolveIndex(k) = DeclaredMain
                   THEN e.cls = "PlayerCollectedFromMainPot"
                   ELSE /\ e.cls = "PlayerCollectedFromSidePot"
                        /\ e.side_pot_index = SideRank(k)

(* C3 as amended: the record at the declared main-pot index is the main pot;
   every other resolve record is a side pot that carries its own 0-based
   index among all resolve records (so the index of the main pot is skipped
   by the side pots that follow it). *)
C3_SideIndexAmongResolveRecords ==
    InEnd =>
        \A k \in 1..Len(stack) : IsResolve(k) =>
            \A i \in 1..Len(CollectedOf(k)) :
                LET e == CollectedOf(k)[i]
                IN IF ResolveIndex(k) = DeclaredMain
                   THEN e.cls = "PlayerCollectedFromMainPot"
                   ELSE /\ e.cls = "PlayerCollectedFromSidePot"
                        /\ e.side_pot_index = ResolveIndex(k)

(* A side pot before the main pot and the main pot itself have paid out *)
C3_Witness ==
    /\ InEnd
    /\ \E k, m \in 1..Len(stack) :
          /\ IsResolve(k) /\ IsResolve(m)
          /\ ResolveIndex(k) < DeclaredMain
          /\ ResolveIndex(m) = DeclaredMain
          /\ CollectedOf(k) # <<>>
          /\ CollectedOf(m) # <<>>

-----------------------------------------------------------------------------
(* C4: HandEnded carries exactly one ResolvedPot per resolve record, the pot
   attributed as the main pot at position zero and the side pots after it,
   and a rake map equal to the leading record's serial2rake. *)
C4_HandEndedMainPotFirst ==
    (InEnd /\ pc = "done") =>
        LET ended == Last(out)
            n == Len(ResolveRecordsSeen)
        IN /\ ended.cls = "HandEnded"
           /\ Len(SelectEvents(out, {"HandEnded"})) = 1
           /\ Len(ended.pots) = n
           /\ ended.player_rake = end_state.serial2rake
           /\ n > 0 =>
                /\ n > DeclaredMain
                /\ ended.pots[1] = resolved_pot(ResolveRecordsSeen[DeclaredMain + 1])
                /\ \A j \in 1..n : j # DeclaredMain + 1 =>
                      \E i \in 2..n :
                          ended.pots[i] = resolved_pot(ResolveRecordsSeen[j])

-----------------------------------------------------------------------------
(* C5 as claimed: without best-hand information no PlayerShowedHand and no
   PlayerMuckedHand is produced, and the only events of the End event are
   collected-from-pot events and HandEnded. *)
C5_OnlyCollectedAndHandEnded ==
    (InEnd /\ ~HasBestInfo) =>
        \A i \in 1..Len(EndEvents) :
            EndEvents[i].cls \in CollectedClasses \cup {"HandEnded"}

(* C5 as amended: without best-hand information no PlayerShowedHand and no
   PlayerMuckedHand is produced, and the only events of the End event are
   collected-from-pot events, one UncalledBetReturnedToPlayer event for each
   uncalled record, and HandEnded. *)
C5_NoShowOrMuckWithoutBestHands ==
    (InEnd /\ ~HasBestInfo) =>
        /\ \A i \in 1..Len(EndEvents) :
              EndEvents[i].cls \in CollectedClasses
                  \cup {"UncalledBetReturnedToPlayer", "HandEnded"}
        /\ \A k \in 1..Len(stack) :
              SelectEvents(rec_events[k], {"UncalledBetReturnedToPlayer"})
                  = IF stack[k].type = "uncalled"
                    THEN <<UncalledBetReturnedToPlayer(stack[k].serial,
                                                       stack[k].uncalled)>>
                    ELSE <<>>

(* A hand without best-hand information is over, and a pot with two eligible
   players and an uncalled bet were resolved *)
C5_Witness ==
    /\ InEnd
    /\ pc = "done"
    /\ ~HasBestInfo
    /\ \E k, m \in 1..Len(stack) :
          /\ IsResolve(k) /\ Len(stack[k].serials) = 2
          /\ stack[m].type = "uncalled"

-----------------------------------------------------------------------------
(* C6: an End event with a single resolve record with two eligible players
   produces exactly one collected event per winner of its share map, each a
   PlayerCollectedFromMainPot. *)
C6_SinglePotCollectsFromMainPot ==
    EndOver =>
        \A k \in 1..Len(AllRecords) :
            (/\ IsResolve(k)
             /\ Cardinality({j \in 1..Len(AllRecords) : IsResolve(j)}) = 1
             /\ Len(AllRecords[k].serials) = 2) =>
                LET share == AllRecords[k].serial2share
                IN /\ Len(CollectedOf(k)) = Cardinality(DOMAIN share)
                   /\ \A w \in DOMAIN share :
                         \E i \in 1..Len(CollectedOf(k)) :
                             CollectedOf(k)[i] =
                                 PlayerCollectedFromMainPot(w, share[w])

-----------------------------------------------------------------------------
(* C7: with best-hand information, the players that emit PlayerShowedHand in
   a resolve record are exactly its eligible players that hold a high hand
   and have not shown in an earlier record, in the order of the eligible
   list, whatever their ranks: each shows at the first pot it is eligible
   for. *)
HoldsHighHand(p) ==
    /\ p \in DOMAIN end_state.serial2best
    /\ "hi" \in end_state.serial2best[p].keys

C7_EveryHighHandShows ==
    (EndOver /\ HasBestInfo) =>
        \A k \in 1..Len(AllRecords) : IsResolve(k) =>
            [i \in 1..Len(ShowedOf(k)) |-> ShowedOf(k)[i].player_id]
                = SelectSeq(AllRecords[k].serials,
                            LAMBDA p : HoldsHighHand(p) /\ p \notin ShownBefore(k))

-----------------------------------------------------------------------------
(* C8 as claimed: the heads-up fold-win hand of the integration test yields
   HandStarted, PlayerPostedSmallBlind(22, 12), PlayerPostedBigBlind(23, 25),
   PreflopRoundStarted, CardsDealtToPlayer(22), CardsDealtToPlayer(23),
   PlayerFolded(22), HandEnded(one pot of 37 won by 23, rake {23: 0}) and
   nothing else. *)
TestHand ==
    FoldWinHand(<<".", "1", "0", "-", ".", "2", "5", "-",
                  "n", "o", "-", "l", "i", "m", "i", "t">>, 12, 22)

EventsUntilFold ==
    <<HandStarted(174, 1310087430, "holdem", BettingStructure("No Limit", 10, 25),
                  <<Player(22, "Alice", 0, 1262), Player(23, "Bob", 1, 1237)>>),
      PlayerPostedSmallBlind(22, 12),
      PlayerPostedBigBlind(23, 25),
      PreflopRoundStarted,
      CardsDealtToPlayer(22, <<Downcard("Two", "spades"),
                               Downcard("Jack", "hearts")>>),
      CardsDealtToPlayer(23, <<Downcard("Five", "spades"),
                               Downcard("Eight", "diamonds")>>),
      PlayerFolded(22)>>

TestHandEnded ==
    HandEnded(<<ResolvedPot(37, <<23>>, [player_id \in {23} |-> 37])>>,
              [player_id \in {23} |-> 0])

C8_FoldWinEventsAsClaimed ==
    (pokerengine_hand = TestHand /\ pc = "done") =>
        out = EventsUntilFold \o <<TestHandEnded>>

(* C8 as amended: the same hand yields the same events with
   PlayerCollectedFromMainPot(23, 37) between PlayerFolded(22) and
   HandEnded, and no Showdown event. *)
C8_FoldWinEvents ==
    (pokerengine_hand = TestHand /\ pc = "done") =>
        out = EventsUntilFold
                \o <<PlayerCollectedFromMainPot(23, 37), TestHandEnded>>

(* The test hand has been normalized to its end *)
C8_Witness ==
    /\ pokerengine_hand = TestHand
    /\ pc = "done"
    /\ todo = <<>>
    /\ Last(out).cls = "HandEnded"
    /\ PlayerFolded(22) \in Range(SelectEvents(out, {"PlayerFolded"}))

-----------------------------------------------------------------------------
(* C9: a Showdown engine event produces the Showdown narrative event if and
   only if it carries the cards of more than one player; with zero or one
   player it produces no narrative event. *)
C9_ShowdownIffSeveralPlayers ==
    event.cls = "ShowdownEvent" =>
        /\ error = ""
        /\ emitted = IF Cardinality(DOMAIN event.player_cards) > 1
                     THEN <<Showdown>> ELSE <<>>

(* A Showdown event with the cards of one player produced nothing *)
C9_Witness ==
    /\ event.cls = "ShowdownEvent"
    /\ Cardinality(DOMAIN event.player_cards) = 1
    /\ emitted = <<>>
    /\ out = <<>>

-----------------------------------------------------------------------------
(* C10: after a Showdown engine event the context's hole-card map holds the
   converted cards of exactly the players the event supplied, whether or not
   the Showdown narrative event was emitted; and the End event that follows
   finds the cards of every player it shows or mucks: no card lookup fails. *)
C10_ContextHoldsShowdownCards ==
    /\ event.cls = "ShowdownEvent" =>
          /\ "player_cards" \in context.attrs
          /\ DOMAIN context.player_cards = DOMAIN event.player_cards
          /\ \A p \in DOMAIN event.player_cards :
                context.player_cards[p] = pokercards_adapter(event.player_cards[p])
    /\ InEnd =>
          /\ error \notin {"KeyError: player_cards", "AttributeError: player_cards"}
          /\ \A i \in 1..Len(out) :
                out[i].cls \in ShowClasses =>
                    /\ out[i].player_id \in DOMAIN context.player_cards
                    /\ out[i].cards = context.player_cards[out[i].player_id]

(* A fold win: the Showdown event carried one player, no Showdown narrative
   event was emitted, and the End event showed that player's converted
   cards *)
C10_Witness ==
    /\ InEnd
    /\ Cardinality(DOMAIN context.player_cards) = 1
    /\ SelectEvents(out, {"Showdown"}) = <<>>
    /\ \E i \in 1..Len(out) :
          /\ out[i].cls = "PlayerShowedHand"
          /\ out[i].cards = <<Upcard("Two", "spades")>>

-----------------------------------------------------------------------------
(* Observations on the records processed so far *)

MuckedOf(k) == SelectEvents(EventsOf(k), {"PlayerMuckedHand"})

(* The events of the processed records, as the caller received them *)
RecordOutput == Flatten(rec_events)

(* The output ends with the events of the records, followed by HandEnded
   once the End event is over *)
RecordsCloseOutput ==
    LET tail == IF pc = "done" THEN 1 ELSE 0
        n == Len(RecordOutput)
    IN /\ Len(out) >= n + tail
       /\ SubSeq(out, Len(out) - tail - n + 1, Len(out) - tail) = RecordOutput

-----------------------------------------------------------------------------
(* C13: every resolve record, with or without best-hand information and
   whatever its eligible players show or muck, emits exactly one collected
   event per entry of its serial2share map, with that player and amount,
   after all show/muck events of the record and before the events of the
   next record. *)
C13_CollectedPerShare ==
    InEnd =>
        /\ RecordsCloseOutput
        /\ \A k \in 1..Len(stack) : IsResolve(k) =>
              LET share == stack[k].serial2share
                  evs == rec_events[k]
                  c == Len(CollectedOf(k))
              IN /\ c = Cardinality(DOMAIN share)
                 /\ \A w \in DOMAIN share :
                       \E i \in 1..c :
                           /\ CollectedOf(k)[i].player_id = w
                           /\ CollectedOf(k)[i].amount = share[w]
                 /\ \A i \in 1..Len(evs) :
                       IF i <= Len(evs) - c
                       THEN evs[i].cls \in ShowClasses
                       ELSE evs[i].cls \in CollectedClasses

-----------------------------------------------------------------------------
(* C14: a left_over record emits exactly one collected event for its
   recipient: PlayerCollectedFromMainPot if the number of resolve records
   consumed before it is the main-pot index, otherwise
   PlayerCollectedFromSidePot with that number as index; it adds no pot and
   does not advance the pot index (the number of resolved pots stays the
   number of resolve records consumed). *)
C14_LeftOverCollects ==
    (InEnd /\ error = "") =>
        /\ Len(pots) = Len(ResolveRecordsSeen)
        /\ \A k \in 1..Len(stack) : stack[k].type = "left_over" =>
              /\ Len(rec_events[k]) = 1
              /\ rec_events[k][1].player_id = stack[k].serial
              /\ IF ResolveIndex(k) = DeclaredMain
                 THEN rec_events[k][1].cls = "PlayerCollectedFromMainPot"
                 ELSE /\ rec_events[k][1].cls = "PlayerCollectedFromSidePot"
                      /\ rec_events[k][1].side_pot_index = ResolveIndex(k)

(* A left_over record was paid from the main pot, another from a side pot
   after a resolve record, and the hand ended with one pot per resolve
   record *)
C14_Witness ==
    /\ InEnd
    /\ pc = "done"
    /\ Len(stack) = 2
    /\ IsResolve(1)
    /\ stack[2].type = "left_over"
    /\ rec_events[2][1].cls \in CollectedClasses
    /\ Len(Last(out).pots) = 1

-----------------------------------------------------------------------------
(* C15: every uncalled record emits exactly one UncalledBetReturnedToPlayer
   with its player and amount, at its position, with or without best-hand
   information, and leaves the players that showed or mucked, the number
   of resolve records consumed and the resolved pots as they were: the
   sets and the pots are those the resolve records alone account for. *)
C15_UncalledReturned ==
    (InEnd /\ error = "") =>
        /\ RecordsCloseOutput
        /\ Len(pots) = Len(ResolveRecordsSeen)
        /\ \A i \in 1..Len(pots) :
              pots[i] = resolved_pot(ResolveRecordsSeen[Len(pots) + 1 - i])
        /\ players_that_showed =
              {e.player_id : e \in UNION {Range(ShowedOf(k)) :
                                            k \in {j \in 1..Len(stack) : IsResolve(j)}}}
        /\ players_that_mucked =
              {e.player_id : e \in UNION {Range(MuckedOf(k)) :
                                            k \in {j \in 1..Len(stack) : IsResolve(j)}}}
        /\ \A k \in 1..Len(stack) : stack[k].type = "uncalled" =>
              /\ Len(rec_events[k]) = 1
              /\ rec_events[k][1].cls = "UncalledBetReturnedToPlayer"
              /\ rec_events[k][1].player_id = stack[k].serial
              /\ rec_events[k][1].amount = stack[k].uncalled

(* An uncalled record was processed between two resolve records of a hand
   with best-hand information in which a player showed *)
C15_Witness ==
    /\ InEnd
    /\ error = ""
    /\ HasBestInfo
    /\ Len(stack) >= 2
    /\ IsResolve(1)
    /\ ShowedOf(1) # <<>>
    /\ stack[2].type = "uncalled"
    /\ Len(rec_events[2]) = 1

-----------------------------------------------------------------------------
(* The hand classes and the hand-rank adapter on their own: a comparison of
   two hands of one ordering, or one call of pokereval_best_hand_adapter on
   a best hand as the engine reports it. *)

MaxRank == 3

HighHandClasses ==
    {"HighCard", "OnePair", "TwoPair", "ThreeOfAKind", "Straight", "Flush",
     "FullHouse", "FourOfAKind", "StraightFlush"}

(* pypoker-eval's categories of a "hi" best hand *)
PokerevalHighCategories ==
    {"NoPair", "OnePair", "TwoPair", "Trips", "Straight", "Flush", "FlHouse",
     "Quads", "StFlush"}

BestCardOptions == {<<31, 18, 49, 7, 16>>, <<5, 4, 3, 2, 0>>}

HandsOf(classes) ==
    {Hand(cls, pokercards_adapter(CardList(cards)), ranking) :
        cls \in classes, cards \in BestCardOptions, ranking \in 0..MaxRank}

CompareInputs ==
    {[cls |-> "Compare", hand |-> a, other_hand |-> b] :
        a \in HandsOf(HighHandClasses), b \in HandsOf(HighHandClasses)}
    \cup {[cls |-> "Compare", hand |-> a, other_hand |-> b] :
            a \in HandsOf({"LowHand"}), b \in HandsOf({"LowHand"})}

(* The best hands of one side: a "hi" hand of any category, a qualifying
   "low" hand (tagged NoPair) or the low side's ['Nothing'] *)
AdapterInputs ==
    {[cls |-> "Adapt", side |-> "hi",
      pokereval_hand |-> PokerevalHand(ranking, category, cards)] :
        ranking \in 0..MaxRank, category \in PokerevalHighCategories,
        cards \in BestCardOptions}
    \cup {[cls |-> "Adapt", side |-> "low",
           pokereval_hand |-> PokerevalHand(ranking, "NoPair", cards)] :
            ranking \in 0..MaxRank, cards \in BestCardOptions}
    \cup {[cls |-> "Adapt", side |-> "low",
           pokereval_hand |-> PokerevalHand(268435455, "Nothing", <<>>)]}

InitHands ==
    /\ pc = "hands"
    /\ event \in CompareInputs \cup AdapterInputs
    /\ context = EmptyContext
    /\ out = <<>>
    /\ emitted = <<>>
    /\ error = ""
    /\ todo = <<>>
    /\ pokerengine_hand = NoHand
    /\ runs = <<>>
    /\ history = NoHistory
    /\ EndIdle

Compare ==
    /\ pc = "hands"
    /\ event.cls = "Compare"
    /\ emitted' = <<[is_better_than |-> is_better_than(event.hand, event.other_hand),
                     eq |-> hand_eq(event.hand, event.other_hand)]>>
    /\ pc' = "done"
    /\ UNCHANGED <<context, out, event, error, todo, callVars, endVars>>

Adapt ==
    /\ pc = "hands"
    /\ event.cls = "Adapt"
    /\ LET res == pokereval_best_hand_adapter(event.pokereval_hand)
       IN /\ emitted' = IF res.error = "" THEN <<res.hand>> ELSE <<>>
          /\ error' = res.error
          /\ pc' = IF res.error = "" THEN "done" ELSE "error"
    /\ UNCHANGED <<context, out, event, todo, callVars, endVars>>

NextHands ==
    \/ Compare
    \/ Adapt

SpecHands == InitHands /\ [][NextHands]_vars

-----------------------------------------------------------------------------
(* C19: a high hand is better than another high hand exactly when its rank
   is greater, a low hand is better than another low hand exactly when its
   rank is smaller, and two hands of one ordering are equal exactly when
   their ranks are equal, whatever their cards. *)
C19_HandOrderByRank ==
    (pc = "done" /\ event.cls = "Compare") =>
        LET a == event.hand
            b == event.other_hand
        IN /\ a.cls \in HighHandClasses =>
                 (emitted[1].is_better_than <=>
                     a.pokereval_ranking > b.pokereval_ranking)
           /\ a.cls = "LowHand" =>
                 (emitted[1].is_better_than <=>
                     a.pokereval_ranking < b.pokereval_ranking)
           /\ emitted[1].eq <=> a.pokereval_ranking = b.pokereval_ranking

(* Two low hands with different cards were compared and the one of the
   smaller rank was better *)
C19_Witness ==
    /\ pc = "done"
    /\ event.cls = "Compare"
    /\ event.hand.cls = "LowHand"
    /\ event.hand.cards # event.other_hand.cards
    /\ event.hand.pokereval_ranking < event.other_hand.pokereval_ranking
    /\ emitted[1].is_better_than
    /\ ~emitted[1].eq

-----------------------------------------------------------------------------
(* C20: for every best hand the engine supplies, the adapter returns a hand
   of the variant its tag selects, with the supplied rank and cards: each of
   the nine high categories yields its own high-hand variant, a qualifying
   low hand the low-hand variant, and the result is absent exactly when the
   tag is the one of no qualifying hand. *)
VariantOfCategory(category) ==
    CASE category = "NoPair" -> "HighCard"
      [] category = "OnePair" -> "OnePair"
      [] category = "TwoPair" -> "TwoPair"
      [] category = "Trips" -> "ThreeOfAKind"
      [] category = "Straight" -> "Straight"
      [] category = "Flush" -> "Flush"
      [] category = "FlHouse" -> "FullHouse"
      [] category = "Quads" -> "FourOfAKind"
      [] category = "StFlush" -> "StraightFlush"

C20_AdapterVariantByTag ==
    (pc \in {"done", "error"} /\ event.cls = "Adapt") =>
        LET h == event.pokereval_hand
        IN /\ error = ""
           /\ Len(emitted) = 1
           /\ IsNone(emitted[1]) <=> h.category = "Nothing"
           /\ h.category # "Nothing" =>
                 /\ emitted[1].pokereval_ranking = h.ranking
                 /\ emitted[1].cards = pokercards_adapter(CardList(h.cards))
                 /\ emitted[1].cls = IF event.side = "low" THEN "LowHand"
                                     ELSE VariantOfCategory(h.category)

-----------------------------------------------------------------------------
(* HandHistoryGenerator.  A line of the hand history is a record: its kind
   names the format string, the other fields are the values the format
   string prints.  The context is the Context() that generate creates. *)

FormatContext ==
    [attrs |-> {}, player_names |-> <<>>, player_cards |-> <<>>,
     community_cards |-> <<>>, all_in |-> FALSE]

(* str(card) for each card: rank and suit, not the card's class *)
cards_string(cards) ==
    [i \in 1..Len(cards) |-> <<cards[i].rank, cards[i].suit>>]

(* Hand.__str__ of each class: [text, error].  ThreeOfAKind formats '{1}'
   with one argument and FullHouse formats '{0}' with keyword arguments
   only. *)
str_hand(h) ==
    LET rank(i) == h.cards[i].rank
        need(n, text) == IF Len(h.cards) >= n THEN [text |-> text, error |-> ""]
                         ELSE [text |-> <<>>, error |-> "IndexError: cards"]
    IN CASE IsNone(h) -> [text |-> <<"None">>, error |-> ""]
         [] h.cls = "LowHand" ->
               [text |-> [i \in 1..Len(h.cards) |-> rank(i)], error |-> ""]
         [] h.cls \in {"ThreeOfAKind", "FullHouse"} ->
               [text |-> <<>>, error |-> "IndexError: format"]
         [] h.cls = "TwoPair" -> need(3, <<"two pair", rank(1), rank(3)>>)
         [] h.cls \in {"StraightFlush", "Straight"} ->
               IF h.cls = "StraightFlush" /\ Len(h.cards) >= 1 /\ rank(1) = "Ace"
               THEN [text |-> <<"a Royal Flush">>, error |-> ""]
               ELSE need(5, <<h.cls, rank(5), rank(1)>>)
         [] OTHER -> need(1, <<h.cls, rank(1)>>)

hand_description(high_hand, low_hand) ==
    LET high == str_hand(high_hand)
        low == str_hand(low_hand)
    IN IF ~IsNone(high_hand) /\ ~IsNone(low_hand)
       THEN [text |-> <<"HI", high.text, "LO", low.text>>,
             error |-> IF high.error # "" THEN high.error ELSE low.error]
       ELSE IF ~IsNone(high_hand) THEN high
       ELSE low

PlayerActionNeverAllIn(player_id, action, ctx) ==
    IF "player_names" \notin ctx.attrs
    THEN Outcome(<<>>, ctx, "AttributeError: player_names")
    ELSE IF player_id \notin DOMAIN ctx.player_names
    THEN Outcome(<<>>, ctx, "KeyError: player_names")
    ELSE Outcome(<<[kind |-> "action", player |-> ctx.player_names[player_id],
                    action |-> action, all_in |-> FALSE]>>,
                 ctx, "")

(* player_action: the name lookup, then the all-in suffix *)
player_action(player_id, action, ctx) ==
    IF "player_names" \notin ctx.attrs
    THEN Outcome(<<>>, ctx, "AttributeError: player_names")
    ELSE IF player_id \notin DOMAIN ctx.player_names
    THEN Outcome(<<>>, ctx, "KeyError: player_names")
    ELSE Outcome(<<[kind |-> "action", player |-> ctx.player_names[player_id],
                    action |-> action,
                    all_in |-> "all_in" \in ctx.attrs /\ ctx.all_in]>>,
                 ctx, "")

(* A line that names a player without player_action *)
NamedLine(player_id, line, ctx) ==
    IF "player_names" \notin ctx.attrs
    THEN Outcome(<<>>, ctx, "AttributeError: player_names")
    ELSE IF player_id \notin DOMAIN ctx.player_names
    THEN Outcome(<<>>, ctx, "KeyError: player_names")
    ELSE Outcome(<<[kind |-> "named", player |-> ctx.player_names[player_id],
                    line |-> line]>>, ctx, "")

TextLine(line) == [kind |-> "text", line |-> line]

VARIANT_MAP ==
    ("holdem" :> "Hold'em") @@ ("omaha" :> "Omaha") @@ ("omaha8" :> "Omaha Hi/Lo")

handle_HandStarted(e, ctx) ==
    IF e.variant \notin DOMAIN VARIANT_MAP
    THEN Outcome(<<>>, ctx, "KeyError: variant")
    ELSE LET names == [i \in 1..Len(e.players) |-> e.players[i].name]
             ids == {e.players[i].player_id : i \in 1..Len(e.players)}
             by_id(p) == CHOOSE i \in 1..Len(e.players) :
                            /\ e.players[i].player_id = p
                            /\ \A j \in (i + 1)..Len(e.players) :
                                  e.players[j].player_id # p
         IN Outcome(
              <<TextLine(<<"Game", e.hand_id, VARIANT_MAP[e.variant],
                           e.betting_structure.limit,
                           e.betting_structure.small_blind,
                           e.betting_structure.big_blind,
                           "UTC", e.hand_timestamp>>)>>
              \o [i \in 1..Len(e.players) |->
                     TextLine(<<"Seat", e.players[i].seat_number + 1,
                                e.players[i].name, e.players[i].chips>>)],
              SetAttr(ctx, "player_names",
                      [p \in ids |-> e.players[by_id(p)].name]),
              "")

RECURSIVE SumAmounts(_)
SumAmounts(amounts) ==
    IF amounts = <<>> THEN 0 ELSE Head(amounts) + SumAmounts(Tail(amounts))

(* _pot_summary: the total, the first pot as main pot, the others as side
   pots numbered from 1, the rake *)
pot_summary(resolved_pots, player_rake) ==
    IF resolved_pots = <<>>
    THEN [text |-> <<>>, error |-> "IndexError: resolved_pots"]
    ELSE [text |->
            <<"Total pot",
              SumAmounts([i \in 1..Len(resolved_pots) |->
                             resolved_pots[i].pot_amount]),
              "Main pot", resolved_pots[1].pot_amount,
              [i \in 1..(Len(resolved_pots) - 1) |->
                  <<"Side pot", i, resolved_pots[i + 1].pot_amount>>],
              "Rake",
              SumAmounts([i \in 1..Cardinality(DOMAIN player_rake) |->
                             player_rake[SetToSeq(DOMAIN player_rake)[i]]])>>,
          error |-> ""]

(* The events HandHistoryGenerator has a handle_ method for *)
HistoryHandlers ==
    {"HandStarted", "PlayerPostedSmallBlind", "PlayerPostedBigBlind",
     "PlayerPostedBigAndSmallBlinds", "PlayerPostedAnte", "PreflopRoundStarted",
     "CardsDealtToPlayer", "FlopDealt", "TurnDealt", "RiverDealt",
     "PlayerCalled", "PlayerChecked", "PlayerFolded", "PlayerRaised",
     "UncalledBetReturnedToPlayer", "Showdown", "PlayerShowedHand",
     "PlayerMuckedHand", "PlayerCollectedFromSidePot",
     "PlayerCollectedFromMainPot", "HandEnded"}

(* The street handlers that read context.community_cards *)
StreetLine(street, card, ctx) ==
    IF "community_cards" \notin ctx.attrs
    THEN Outcome(<<>>, ctx, "AttributeError: community_cards")
    ELSE Outcome(<<TextLine(<<street, cards_string(ctx.community_cards),
                              cards_string(<<card>>)>>)>>,
                 SetAttr(ctx, "community_cards",
                         Append(ctx.community_cards, card)),
                 "")

(* Generator.generate_from_event on the formatter: the handle_ method of the
   event's class, or nothing when the class has none (None included). *)
history_from_event(e, ctx) ==
    CASE e.cls \notin HistoryHandlers -> Outcome(<<>>, ctx, "")
      [] e.cls = "HandStarted" -> handle_HandStarted(e, ctx)
      [] e.cls = "PlayerPostedSmallBlind" ->
            player_action(e.player_id, <<"posts small blind", e.amount>>, ctx)
      [] e.cls = "PlayerPostedBigBlind" ->
            player_action(e.player_id, <<"posts big blind", e.amount>>, ctx)
      [] e.cls = "PlayerPostedBigAndSmallBlinds" ->
            player_action(e.player_id,
                          <<"posts small & big blinds",
                            e.big_blind_amount + e.small_blind_amount>>, ctx)
      [] e.cls = "PlayerPostedAnte" ->
            player_action(e.player_id, <<"posts the ante", e.amount>>, ctx)
      [] e.cls = "PreflopRoundStarted" ->
            Outcome(<<TextLine(<<"*** HOLE CARDS ***">>)>>, ctx, "")
      [] e.cls = "CardsDealtToPlayer" ->
            LET named == NamedLine(e.player_id,
                                   <<"Dealt to", cards_string(e.cards)>>, ctx)
                held == IF "player_cards" \in ctx.attrs THEN ctx.player_cards
                        ELSE <<>>
            IN IF named.error # "" THEN named
               ELSE Outcome(named.events,
                            SetAttr(ctx, "player_cards",
                                    [p \in DOMAIN held \cup {e.player_id} |->
                                        IF p = e.player_id THEN e.cards
                                        ELSE held[p]]),
                            "")
      [] e.cls = "FlopDealt" ->
            Outcome(<<TextLine(<<"*** FLOP ***", cards_string(e.flop_cards)>>)>>,
                    SetAttr(ctx, "community_cards", e.flop_cards), "")
      [] e.cls = "TurnDealt" -> StreetLine("*** TURN ***", e.turn_card, ctx)
      [] e.cls = "RiverDealt" -> StreetLine("*** RIVER ***", e.river_card, ctx)
      [] e.cls = "PlayerCalled" ->
            player_action(e.player_id, <<"calls", e.amount>>, ctx)
      [] e.cls = "PlayerChecked" -> player_action(e.player_id, <<"checks">>, ctx)
      [] e.cls = "PlayerFolded" -> player_action(e.player_id, <<"folds">>, ctx)
      [] e.cls = "PlayerRaised" ->
            player_action(e.player_id,
                          IF e.by_amount = e.to_amount
                          THEN <<"bets", e.by_amount>>
                          ELSE <<"raises", e.by_amount, "to", e.to_amount>>,
                          ctx)
      [] e.cls = "UncalledBetReturnedToPlayer" ->
            NamedLine(e.player_id, <<"Uncalled bet", e.amount, "returned to">>, ctx)
      [] e.cls = "Showdown" ->
            Outcome(<<TextLine(<<"*** SHOW DOWN ***">>)>>, ctx, "")
      [] e.cls = "PlayerShowedHand" ->
            LET desc == hand_description(e.high_hand, e.low_hand)
            IN IF desc.error # "" THEN Outcome(<<>>, ctx, desc.error)
               ELSE player_action(e.player_id,
                                  <<"shows", cards_string(e.cards), desc.text>>,
                                  ctx)
      [] e.cls = "PlayerMuckedHand" ->
            IF "player_cards" \notin ctx.attrs
            THEN Outcome(<<>>, ctx, "AttributeError: player_cards")
            ELSE IF e.player_id \notin DOMAIN ctx.player_cards
            THEN Outcome(<<>>, ctx, "KeyError: player_cards")
            ELSE player_action(e.player_id, <<"mucks">>, ctx)
      [] e.cls = "PlayerCollectedFromSidePot" ->
            NamedLine(e.player_id,
                      <<"collected", e.amount, "from side pot",
                        e.side_pot_index + 1>>, ctx)
      [] e.cls = "PlayerCollectedFromMainPot" ->
            NamedLine(e.player_id, <<"collected", e.amount, "from main pot">>, ctx)
      [] e.cls = "HandEnded" ->
            LET summary == pot_summary(e.pots, e.player_rake)
            IN IF summary.error # ""
               THEN Outcome(<<TextLine(<<"*** SUMMARY ***">>)>>, ctx, summary.error)
               ELSE Outcome(
                      <<TextLine(<<"*** SUMMARY ***">>), TextLine(summary.text)>>
                      \o (IF "community_cards" \in ctx.attrs
                          THEN <<TextLine(<<"Board",
                                            cards_string(ctx.community_cards)>>)>>
                          ELSE <<>>),
                      ctx, "")

(* ObserverHandHistoryGenerator: handle_CardsDealtToPlayer is overridden by
   a method whose body is "pass"; it returns None, for which
   generate_from_event yields nothing, and the context is left alone. *)
observer_from_event(e, ctx) ==
    IF e.cls = "CardsDealtToPlayer" THEN Outcome(<<>>, ctx, "")
    ELSE history_from_event(e, ctx)

(* do_generate: every event but the last is formatted with context.all_in
   telling whether the next event is a PlayerWentAllIn; the last event of
   the pairs is formatted with all_in False.  pairwise yields no pair for
   fewer than two events, and last_event stays None.  acc is the Outcome so
   far. *)
RECURSIVE do_generate(_, _, _, _)
do_generate(generator, events, i, acc) ==
    IF acc.error # "" \/ i > Len(events) \/ Len(events) < 2 THEN acc
    ELSE LET all_in == i < Len(events) /\ events[i + 1].cls = "PlayerWentAllIn"
             ctx == SetAttr(acc.context, "all_in", all_in)
             res == IF generator = "ObserverHandHistoryGenerator"
                    THEN observer_from_event(events[i], ctx)
                    ELSE history_from_event(events[i], ctx)
         IN do_generate(generator, events, i + 1,
                        Outcome(acc.events \o res.events, res.context, res.error))

(* HandHistoryGenerator.generate: the joined lines, or the exception *)
generate(events) ==
    LET res == do_generate("HandHistoryGenerator", events, 1,
                           Outcome(<<>>, FormatContext, ""))
    IN [lines |-> IF res.error = "" THEN res.events ELSE <<>>,
        error |-> res.error]

(* generate as ObserverHandHistoryGenerator inherits it *)
generate_observer(events) ==
    LET res == do_generate("ObserverHandHistoryGenerator", events, 1,
                           Outcome(<<>>, FormatContext, ""))
    IN [lines |-> IF res.error = "" THEN res.events ELSE <<>>,
        error |-> res.error]

-----------------------------------------------------------------------------
(* generate_hand_history called on one hand, then called again on the same
   hand.  The hands: with or without the 'game' record that configures the
   blinds, with or without records of a kind the event map does not know,
   ending with a Canceled event, a fold win, a showdown (with or without an
   all-in raise), or an End event whose leading record lacks a key. *)

MaxRuns == 2

Endings == {"canceled", "fold", "showdown", "no_rake", "no_side_pots"}

NoiseLabels == {"position", "rake"}

(* The records of the hand before records of unknown kinds are mixed in *)
CallRecords(game, ending, all_in) ==
    LET state == GameState(1, (23 :> 0))
        best == (22 :> HiOnly) @@ (23 :> HiAndLow)
        end_state_of ==
            CASE ending = "showdown" -> GameStateWithBest(1, (23 :> 0), best)
              [] ending = "no_rake" ->
                    [state EXCEPT !.keys = @ \ {"serial2rake"}]
              [] ending = "no_side_pots" ->
                    [state EXCEPT !.keys = @ \ {"side_pots"}]
              [] OTHER -> state
        deal == <<Raw("round", <<"pre-flop", PokerCards(<<>>),
                                 [player_id \in PLAYERS |-> HoleCards(player_id)]>>)>>
    IN (IF game
        THEN <<Raw("game", <<0, 174, 4, 194, "holdem",
                             <<".", "1", "0", "-", ".", "2", "5", "-",
                               "n", "o", "-", "l", "i", "m", "i", "t">>,
                             <<22, 23>>, 0, (22 :> 1262) @@ (23 :> 1237)>>)>>
        ELSE <<>>)
       \o <<Raw("blind", <<22, 10, 0>>)>>
       \o (CASE ending = "canceled" -> <<Raw("canceled", <<22, 10>>)>>
             [] ending = "showdown" ->
                   <<Raw("blind", <<23, 25, 0>>)>> \o deal
                   \o <<Raw("raise", <<22, 50, 40, 25>>)>>
                   \o (IF all_in THEN <<Raw("all-in", <<22>>)>> ELSE <<>>)
                   \o <<Raw("call", <<23, 25>>),
                        Raw("showdown",
                            <<<<>>, [player_id \in PLAYERS |-> HoleCards(player_id)]>>),
                        Raw("end", <<<<22>>,
                                     <<end_state_of,
                                       ResolveRecord(<<22, 23>>, 100, (22 :> 100))>>>>)>>
             [] OTHER ->
                   <<Raw("blind", <<23, 25, 0>>)>> \o deal
                   \o <<Raw("fold", <<22>>),
                        Raw("showdown",
                            <<<<>>, [player_id \in {23} |-> HoleCards(player_id)]>>),
                        Raw("end", <<<<23>>,
                                     <<end_state_of,
                                       ResolveRecord(<<23>>, 35, (23 :> 35))>>>>)>>)

(* A record of an unknown kind before every record of the hand *)
RECURSIVE WithNoise(_, _)
WithNoise(records, label) ==
    IF records = <<>> THEN <<>>
    ELSE <<Raw(label, <<0>>), Head(records)>> \o WithNoise(Tail(records), label)

CallHands ==
    {PokerEngineHand(IF label = "" THEN CallRecords(game, ending, all_in)
                     ELSE WithNoise(CallRecords(game, ending, all_in), label),
                     1310087430, (22 :> "Alice") @@ (23 :> "Bob")) :
        game \in BOOLEAN, ending \in Endings, all_in \in BOOLEAN,
        label \in NoiseLabels \cup {""}}

InitCalls ==
    /\ pc = "feed"
    /\ pokerengine_hand \in CallHands
    /\ context = HandContext(pokerengine_hand)
    /\ runs = <<>>
    /\ history = NoHistory
    /\ todo = pokerengine_hand.hand_description
    /\ out = <<>>
    /\ event = NoEvent
    /\ emitted = <<>>
    /\ error = ""
    /\ EndIdle

(* The formatter has consumed the narrative events of the call *)
Format ==
    /\ pc = "done"
    /\ history' = generate(out)
    /\ pc' = "formatted"
    /\ UNCHANGED <<context, out, event, emitted, error, pokerengine_hand, runs,
                   todo, endVars>>

(* The hand without the records whose kind the event map does not know *)
StripUnknown(h) ==
    [h EXCEPT !.hand_description = SelectSeq(@, LAMBDA raw : EVENT_MAP(raw) # <<>>)]

(* One call has returned or raised; the caller calls again, with the same
   hand or with that hand stripped of its records of unknown kinds: a new
   Context, the records of the hand it passes *)
Rerun ==
    /\ pc \in {"formatted", "error"}
    /\ Len(runs) + 1 < MaxRuns
    /\ runs' = Append(runs, [hand |-> pokerengine_hand, out |-> out,
                             error |-> error, history |-> history,
                             context |-> context])
    /\ pokerengine_hand' \in {pokerengine_hand, StripUnknown(pokerengine_hand)}
    /\ context' = HandContext(pokerengine_hand')
    /\ todo' = pokerengine_hand'.hand_description
    /\ out' = <<>>
    /\ event' = NoEvent
    /\ emitted' = <<>>
    /\ error' = ""
    /\ history' = NoHistory
    /\ pc' = "feed"
    /\ UNCHANGED endVars

NextCalls ==
    \/ Feed
    \/ RecordStep
    \/ EndFinish
    \/ Format
    \/ Rerun

SpecCalls == InitCalls /\ [][NextCalls]_vars

-----------------------------------------------------------------------------
(* Observations on a call of generate_hand_history *)

Terminators(events) == SelectEvents(events, {"HandEnded", "HandCanceled"})

(* The output of the call has been consumed to its end *)
Consumed == pc \in {"done", "formatted"}

LastLabel == Last(pokerengine_hand.hand_description).label

-----------------------------------------------------------------------------
(* C11: for an engine event sequence terminated by exactly one End or
   Canceled event, the consumed output holds exactly one terminating event
   (HandEnded for End, HandCanceled for Canceled) and no narrative event
   comes after it. *)
C11_OneTerminatorLast ==
    Consumed =>
        /\ Len(Terminators(out)) = 1
        /\ Last(out).cls = IF LastLabel = "end" THEN "HandEnded"
                           ELSE "HandCanceled"

(* C11 as the code has it: the output never holds more than one
   terminating event; a generation that ends without an exception holds
   exactly one, HandEnded as the last event for End, HandCanceled followed
   by one UncalledBetReturnedToPlayer and nothing else for Canceled; a
   generation that an exception ended holds none. *)
C11_OneTerminatorUnlessError ==
    /\ Len(Terminators(out)) <= 1
    /\ Consumed =>
          /\ Len(Terminators(out)) = 1
          /\ LastLabel = "end" => Last(out).cls = "HandEnded"
          /\ LastLabel = "canceled" =>
                /\ Len(out) >= 2
                /\ out[Len(out) - 1].cls = "HandCanceled"
                /\ Last(out).cls = "UncalledBetReturnedToPlayer"
    /\ pc = "error" => Terminators(out) = <<>>

(* A canceled hand whose output ends with the returned bet *)
C11_Witness ==
    /\ pc = "done"
    /\ LastLabel = "canceled"
    /\ Len(out) >= 2
    /\ out[Len(out) - 1].cls = "HandCanceled"
    /\ Last(out).cls = "UncalledBetReturnedToPlayer"

-----------------------------------------------------------------------------
(* C12: a Canceled engine event (player, returned amount) produces exactly
   two narrative events, HandCanceled and then UncalledBetReturnedToPlayer
   with that player and that amount. *)
C12_CanceledThenReturned ==
    event.cls = "CanceledEvent" =>
        /\ error = ""
        /\ Len(emitted) = 2
        /\ emitted[1] = [cls |-> "HandCanceled"]
        /\ emitted[2] = [cls |-> "UncalledBetReturnedToPlayer",
                         player_id |-> event.player_id,
                         amount |-> event.returned_amount]
        /\ Len(out) >= 2
        /\ SubSeq(out, Len(out) - 1, Len(out)) = emitted

(* The Canceled event of a hand has been handled after a blind *)
C12_Witness ==
    /\ event.cls = "CanceledEvent"
    /\ event.player_id = 22
    /\ event.returned_amount = 10
    /\ Len(out) > 2
    /\ pc = "done"

-----------------------------------------------------------------------------
(* C16: a second run on the same engine events with a new context yields
   the narrative events of the first run: what a run left behind
   (configured blinds, hole cards, players that showed or mucked, pots) is
   not seen by the next run. *)
C16_RunsAgree ==
    (runs # <<>> /\ Last(runs).hand = pokerengine_hand) =>
        /\ Len(out) <= Len(Last(runs).out)
        /\ out = SubSeq(Last(runs).out, 1, Len(out))
        /\ pc \in {"formatted", "error"} =>
              /\ out = Last(runs).out
              /\ error = Last(runs).error
              /\ history = Last(runs).history
              /\ context = Last(runs).context

(* The second run of a showdown hand is over: both runs configured the
   blinds, dealt hole cards and had a player show *)
C16_Witness ==
    /\ runs # <<>>
    /\ Last(runs).hand = pokerengine_hand
    /\ pc = "formatted"
    /\ SelectEvents(out, {"HandStarted"}) # <<>>
    /\ SelectEvents(out, {"PlayerShowedHand"}) # <<>>
    /\ SelectEvents(Last(runs).out, {"PlayerShowedHand"}) # <<>>
    /\ players_that_showed # {}

-----------------------------------------------------------------------------
(* C18: a recognized event that lacks an expected field (an End event
   whose leading record has no serial2rake or no side_pots, a Blind event
   with no configured blinds) makes the normalization fail with an error
   the caller receives: the dispatcher does not turn it into zero events,
   no narrative event reports it and no HandEnded is emitted for the
   hand. *)
LacksField ==
    \/ /\ event.cls = "BlindEvent"
       /\ ~({"small_blind", "big_blind"} \subseteq context.attrs)
    \/ /\ event.cls = "EndEvent"
       /\ ~({"serial2rake", "side_pots"} \subseteq Head(event.showdown_stack).keys)

C18_MissingFieldPropagates ==
    LacksField =>
        /\ SelectEvents(out, {"HandEnded"}) = <<>>
        /\ history = NoHistory
        /\ pc # "records" =>
              /\ pc = "error"
              /\ error \in {"KeyError: serial2rake", "KeyError: side_pots",
                            "AttributeError: small_blind",
                            "AttributeError: big_blind"}
        /\ \A i \in 1..Len(out) :
              out[i].cls \in {"HandStarted", "PlayerPostedSmallBlind",
                              "PlayerPostedBigBlind", "PreflopRoundStarted",
                              "CardsDealtToPlayer", "PlayerFolded",
                              "PlayerCollectedFromMainPot"}

(* The End event of a hand without serial2rake failed after the pot had
   been collected; another hand failed at its first blind *)
C18_Witness ==
    /\ pc = "error"
    /\ event.cls = "EndEvent"
    /\ "serial2rake" \notin Head(event.showdown_stack).keys
    /\ error = "KeyError: serial2rake"
    /\ SelectEvents(out, {"PlayerCollectedFromMainPot"}) # <<>>

-----------------------------------------------------------------------------
(* C17: a raw record whose kind is not in the event map, and a typed event
   for which the normalizer or the formatter has no handler, produce no
   output and no error, leave the context as it was and do not change what
   is produced for the events before and after them. *)

(* The run on the hand without its records of unknown kinds went as the run
   on the whole hand: same events, same exception, same lines, same
   context *)
UnknownRecordsChangeNothing ==
    (runs # <<>> /\ pokerengine_hand = StripUnknown(Last(runs).hand)) =>
        /\ Len(out) <= Len(Last(runs).out)
        /\ out = SubSeq(Last(runs).out, 1, Len(out))
        /\ pc \in {"formatted", "error"} =>
              /\ out = Last(runs).out
              /\ error = Last(runs).error
              /\ history = Last(runs).history
              /\ context = Last(runs).context

Handled(events) == SelectSeq(events, LAMBDA e : e.cls \in HistoryHandlers)

C17_UnhandledChangeNothing ==
    /\ UnknownRecordsChangeNothing
    /\ pc = "formatted" => history = generate(Handled(out))

(* C17 as the code has it: records of unknown kinds change nothing; in the
   formatter an event without handler adds no line and no error, and the
   lines of the other events are those of the sequence without it, except
   that a PlayerWentAllIn, which has no handler, makes the player-action
   line of the event just before it end with ' and is all-in'. *)
Unflagged(lines) ==
    [i \in 1..Len(lines) |->
        IF lines[i].kind = "action" THEN [lines[i] EXCEPT !.all_in = FALSE]
        ELSE lines[i]]

FlaggedPlayers(lines) ==
    [i \in 1..Len(SelectSeq(lines, LAMBDA l : l.kind = "action" /\ l.all_in)) |->
        SelectSeq(lines, LAMBDA l : l.kind = "action" /\ l.all_in)[i].player]

PlayerActions ==
    {"PlayerPostedSmallBlind", "PlayerPostedBigBlind",
     "PlayerPostedBigAndSmallBlinds", "PlayerPostedAnte", "PlayerCalled",
     "PlayerChecked", "PlayerFolded", "PlayerRaised", "PlayerShowedHand",
     "PlayerMuckedHand"}

(* The players whose action is directly followed by a PlayerWentAllIn, in
   the order of the events *)
RECURSIVE AllInPlayers(_, _)
AllInPlayers(events, names) ==
    IF Len(events) < 2 THEN <<>>
    ELSE (IF events[1].cls \in PlayerActions /\ events[2].cls = "PlayerWentAllIn"
          THEN <<names[events[1].player_id]>> ELSE <<>>)
         \o AllInPlayers(Tail(events), names)

C17_UnhandledExceptAllIn ==
    /\ UnknownRecordsChangeNothing
    /\ pc = "formatted" =>
          /\ history.error = generate(Handled(out)).error
          /\ Unflagged(history.lines) = generate(Handled(out)).lines
          /\ history =
                generate(SelectSeq(out, LAMBDA e :
                            e.cls \in HistoryHandlers \cup {"PlayerWentAllIn"}))
          /\ FlaggedPlayers(history.lines) =
                AllInPlayers(out, pokerengine_hand.player_names)

(* The hand stripped of its 'position' records was run after the whole
   hand; its output holds a PlayerWentAllIn, for which the formatter has no
   handler, and the line of the raise before it is marked all-in *)
C17_Witness ==
    /\ pc = "formatted"
    /\ runs # <<>>
    /\ pokerengine_hand # Last(runs).hand
    /\ pokerengine_hand = StripUnknown(Last(runs).hand)
    /\ \E i \in 1..Len(Last(runs).hand.hand_description) :
          Last(runs).hand.hand_description[i].label = "position"
    /\ \E i \in 1..(Len(out) - 1) :
          out[i].cls = "PlayerRaised" /\ out[i + 1].cls = "PlayerWentAllIn"
    /\ FlaggedPlayers(history.lines) = <<"Alice">>

-----------------------------------------------------------------------------
(* handle_RoundEvent on its own: a round of any name, the board the engine
   holds at that round, and the hole cards dealt in it (to nobody, to one
   player or to both). *)

RoundNames == {"pre-flop", "flop", "turn", "river", "third"}

FullBoards == {<<1, 2, 3, 4, 5>>, <<20, 30, 40, 50, 10>>, <<7, 8, 9, 22, 23>>}

BoardSize(round_name) ==
    CASE round_name = "flop" -> 3
      [] round_name = "turn" -> 4
      [] round_name = "river" -> 5
      [] OTHER -> 0

(* The board is a PokerCards object (the engine) or a plain list (the
   tests) *)
RoundInputs ==
    {RoundEvent(round_name,
                [is_PokerCards |-> wrapped,
                 cards |-> SubSeq(board, 1, BoardSize(round_name))],
                [player_id \in dealt |-> HoleCards(player_id)]) :
        round_name \in RoundNames, board \in FullBoards, wrapped \in BOOLEAN,
        dealt \in SUBSET PLAYERS}

InitRound ==
    /\ pc = "round"
    /\ event \in RoundInputs
    /\ context = EmptyContext
    /\ out = <<>>
    /\ emitted = <<>>
    /\ error = ""
    /\ todo = <<>>
    /\ pokerengine_hand = NoHand
    /\ runs = <<>>
    /\ history = NoHistory
    /\ EndIdle

Round ==
    /\ pc = "round"
    /\ Handle(event, handle_RoundEvent(event, context), "done")
    /\ UNCHANGED <<callVars, todo, endVars>>

NextRound == Round

SpecRound == InitRound /\ [][NextRound]_vars

-----------------------------------------------------------------------------
(* C21: a Round event yields a street event by round name (pre-flop:
   PreflopRoundStarted without cards; flop: FlopDealt with all community
   cards; turn and river: TurnDealt / RiverDealt with the last community
   card only; any other name: none) and, when hole cards were dealt, one
   CardsDealtToPlayer per player after the street event. *)
C21_StreetThenDealtCards ==
    (pc = "done" /\ event.cls = "RoundEvent") =>
        LET board == pokercards_adapter(event.community_cards)
            street == SelectSeq(emitted, LAMBDA e : e.cls # "CardsDealtToPlayer")
            dealt == SelectEvents(emitted, {"CardsDealtToPlayer"})
        IN /\ error = ""
           /\ emitted = street \o dealt
           /\ street =
                 CASE event.round_name = "pre-flop" ->
                        <<[cls |-> "PreflopRoundStarted"]>>
                   [] event.round_name = "flop" ->
                        <<[cls |-> "FlopDealt", flop_cards |-> board]>>
                   [] event.round_name = "turn" ->
                        <<[cls |-> "TurnDealt", turn_card |-> board[Len(board)]]>>
                   [] event.round_name = "river" ->
                        <<[cls |-> "RiverDealt", river_card |-> board[Len(board)]]>>
                   [] OTHER -> <<>>
           /\ Len(dealt) = Cardinality(DOMAIN event.dealt_cards)
           /\ \A player_id \in DOMAIN event.dealt_cards :
                 \E i \in 1..Len(dealt) :
                     /\ dealt[i].player_id = player_id
                     /\ dealt[i].cards =
                           pokercards_adapter(event.dealt_cards[player_id])

(* A turn round with four community cards in which both players were dealt
   cards: the turn card first, then the two deals *)
C21_Witness ==
    /\ pc = "done"
    /\ event.cls = "RoundEvent"
    /\ event.round_name = "turn"
    /\ Len(event.community_cards.cards) = 4
    /\ Len(emitted) = 3
    /\ emitted[1].cls = "TurnDealt"
    /\ emitted[1].turn_card = pokereval_card_adapter(event.community_cards.cards[4])
    /\ emitted[3].cls = "CardsDealtToPlayer"

-----------------------------------------------------------------------------
(* C22: once a Game event has been processed, the context's small and big
   blind are the amounts of that event's betting-structure string, and
   every Blind event processed later in the hand is classified against
   those amounts: no other event changes them. *)
StructureOfHand == pokerengine_hand.hand_description[1].args[6]

(* The label of the raw record consumed last, "" before the first *)
JustHandled ==
    LET n == Len(pokerengine_hand.hand_description) - Len(todo)
    IN IF n = 0 THEN "" ELSE pokerengine_hand.hand_description[n].label

(* The amounts the three betting structures spell, in hundredths *)
SpelledBlinds ==
    CASE StructureOfHand[1] = "." -> [small_blind |-> 10, big_blind |-> 25]
      [] StructureOfHand[1] = "a" -> [small_blind |-> 1000, big_blind |-> 2000]
      [] OTHER -> [small_blind |-> 100, big_blind |-> 200]

C22_BlindsFromGameEvent ==
    SelectEvents(out, {"HandStarted"}) # <<>> =>
        /\ {"small_blind", "big_blind"} \subseteq context.attrs
        /\ context.small_blind = SpelledBlinds.small_blind
        /\ context.big_blind = SpelledBlinds.big_blind
        /\ out[1].betting_structure.small_blind = SpelledBlinds.small_blind
        /\ out[1].betting_structure.big_blind = SpelledBlinds.big_blind
        /\ JustHandled = "blind" =>
              LET kind == BlindRule(event.blind_amount, event.dead_amount,
                                    SpelledBlinds.small_blind,
                                    SpelledBlinds.big_blind)
              IN /\ error = ""
                 /\ event.cls = "BlindEvent"
                 /\ (kind = "nothing") <=> (emitted = <<>>)
                 /\ emitted # <<>> =>
                      /\ Len(emitted) = 1
                      /\ emitted[1].cls = kind
                      /\ emitted[1].player_id = event.player_id
                      /\ emitted[1].amount = event.blind_amount

(* The hand is over under '1-2-pot-limit': its posting of 25 was taken as a
   small blind of a 100/200 game, and the events after the blinds left the
   amounts alone *)
C22_Witness ==
    /\ pc = "done"
    /\ StructureOfHand[1] = "1"
    /\ context.small_blind = 100
    /\ context.big_blind = 200
    /\ \E i \in 1..Len(out) :
          /\ out[i] = [cls |-> "PlayerPostedSmallBlind", player_id |-> 23,
                       amount |-> 25]
    /\ Last(out).cls = "HandEnded"

-----------------------------------------------------------------------------
(* C23: with best-hand information present, an eligible player that has not
   shown yet, holds no high hand and holds a low hand reveals: the resolve
   record emits a PlayerShowedHand for that player with an absent high slot
   and the low hand, and the End event goes on to HandEnded without an
   exception of the hand comparison. *)
HoldsLowHandOnly(p) ==
    /\ p \in DOMAIN end_state.serial2best
    /\ end_state.serial2best[p].keys = {"low"}

C23_LowOnlyPlayerShows ==
    (EndOver /\ HasBestInfo) =>
        \A k \in 1..Len(stack) : IsResolve(k) =>
            \A p \in Range(stack[k].serials) :
                (HoldsLowHandOnly(p) /\ p \notin ShownBefore(k)) =>
                    /\ error # "AttributeError: pokereval_ranking"
                    /\ \E i \in 1..Len(ShowedOf(k)) :
                          /\ ShowedOf(k)[i].player_id = p
                          /\ IsNone(ShowedOf(k)[i].high_hand)
                          /\ ~IsNone(ShowedOf(k)[i].low_hand)

-----------------------------------------------------------------------------
(* C24: the collected event emitted for a left_over record carries the
   record's chips_left value as its amount, as the collected event of a
   resolve record carries the winner's share.  The two values are compared
   in printed form: the amount of the event may be a list. *)
C24_LeftOverAmountIsChipsLeft ==
    InEnd =>
        \A k \in 1..Len(stack) : stack[k].type = "left_over" =>
            /\ Len(CollectedOf(k)) = 1
            /\ CollectedOf(k)[1].player_id = stack[k].serial
            /\ ToString(CollectedOf(k)[1].amount) = ToString(stack[k].chips_left)

-----------------------------------------------------------------------------
(* C25: for an End event with at least one resolve record, whatever number
   of pots side_pots.pots declares and whatever uncalled or left_over
   records are interleaved, exactly one resolve record has the collected
   events of its winners attributed to the main pot, and that record is the
   first element of the pots list of HandEnded. *)
CollectsFromMainPot(k) ==
    /\ IsResolve(k)
    /\ CollectedOf(k) # <<>>
    /\ \A i \in 1..Len(CollectedOf(k)) :
          CollectedOf(k)[i].cls = "PlayerCollectedFromMainPot"

C25_OneMainPotRecordFirst ==
    (InEnd /\ pc = "done" /\ ResolveRecordsSeen # <<>>) =>
        LET mains == {k \in 1..Len(stack) : CollectsFromMainPot(k)}
        IN /\ Cardinality(mains) = 1
           /\ \A k \in mains :
                 /\ Last(out).pots[1].pot_amount = stack[k].pot
                 /\ Last(out).pots[1].eligible_players = stack[k].serials
                 /\ Last(out).pots[1].winners = stack[k].serial2share

-----------------------------------------------------------------------------
(* End events with up to MaxResolves resolve records over the players of
   the showdown: a player can be eligible for a first, a second and a third
   pot. *)

MaxResolves == 3

RevealBestOptions == {HiOnly, HiAndLow, LowOnly}

(* The resolve records in which the first eligible player takes the pot *)
FirstWinsRecords(S) ==
    {ResolveRecord(l, 1, [player_id \in {l[1]} |-> 1]) : l \in PlayerLists(S)}

ResolveStacks(S) ==
    UNION {[1..n -> FirstWinsRecords(S)] : n \in 1..MaxResolves}

EndResolves ==
    /\ pc = "end"
    /\ \E best \in [DOMAIN context.player_cards -> RevealBestOptions] :
          \E rake \in RakeOptions(DOMAIN context.player_cards, 1) :
              \E records \in ResolveStacks(EligiblePlayers([keys |-> {"serial2best"}, serial2best |-> best])) :
                  EndBegin(EndEvent(<<>>,
                      <<GameStateWithBest(Len(records), rake, best)>> \o records))
    /\ UNCHANGED <<callVars, todo>>

NextReveal ==
    \/ ShowdownStep
    \/ EndResolves
    \/ RecordStep
    \/ EndFinish

SpecReveal == Init /\ [][NextReveal]_vars

(* How many of the first k records are resolve records that name player p
   as eligible *)
EligibleCount(p, k) ==
    Cardinality({j \in 1..k : IsResolve(j) /\ p \in Range(stack[j].serials)})

RevealedIn(k) == SelectEvents(EventsOf(k), ShowClasses)

(* C26: a PlayerMuckedHand is emitted for a player only in a resolve record
   processed after the record in which that player emitted
   PlayerShowedHand: a player holding a high hand of non-negative rank never
   mucks in the first resolve record it is eligible for, and emits no show
   or muck from the third such record on. *)
C26_MuckOnlyAfterShow ==
    InEnd =>
        \A k \in 1..Len(stack) :
            /\ \A i \in 1..Len(MuckedOf(k)) :
                  MuckedOf(k)[i].player_id \in ShownBefore(k)
            /\ \A p \in Range(stack[k].serials) :
                  /\ (HoldsHighHand(p) /\ EligibleCount(p, k) = 1) =>
                        \A i \in 1..Len(MuckedOf(k)) :
                            MuckedOf(k)[i].player_id # p
                  /\ EligibleCount(p, k) >= 3 =>
                        \A i \in 1..Len(RevealedIn(k)) :
                            RevealedIn(k)[i].player_id # p

(* Player 22 was eligible for three pots: it showed in the first, mucked in
   the second and the third brought its collected event only *)
C26_Witness ==
    /\ InEnd
    /\ pc = "done"
    /\ Len(stack) = 3
    /\ \A k \in 1..3 : 22 \in Range(stack[k].serials)
    /\ \E i \in 1..Len(ShowedOf(1)) : ShowedOf(1)[i].player_id = 22
    /\ \E i \in 1..Len(MuckedOf(2)) : MuckedOf(2)[i].player_id = 22
    /\ RevealedIn(3) = <<>>
    /\ CollectedOf(3) # <<>>

-----------------------------------------------------------------------------
(* generate_hand_history on hands of three players, formatted by
   HandHistoryGenerator and by ObserverHandHistoryGenerator.  The hands: the
   game record alone, a fold win, or a showdown that resolves two or more
   pots; the second blind is the big blind or a posting above it, and the
   player that posts it may be all-in with it. *)

MaxHistoryPots == 3

BigPostings == {25, 50}

(* The resolve records of a showdown with n pots: pot i holds 10 * i chips
   and goes to player 22; player 21 is eligible for the last one only *)
PotRecords(n) ==
    [i \in 1..n |->
        ResolveRecord(IF i = n THEN <<22, 23, 21>> ELSE <<22, 23>>, 10 * i,
                      (22 :> 10 * i))]

HistoryRecords(n, big_posting, all_in) ==
    LET best == (22 :> HiOnly) @@ (23 :> HiAndLow) @@ (21 :> HiOnly)
        seated == {22, 23, 21}
        blinds == <<Raw("blind", <<22, 10, 0>>), Raw("blind", <<23, big_posting, 0>>)>>
                  \o (IF all_in THEN <<Raw("all-in", <<23>>)>> ELSE <<>>)
        deal == <<Raw("round", <<"pre-flop", PokerCards(<<>>),
                                 [player_id \in seated |-> HoleCards(player_id)]>>)>>
    IN <<Raw("game", <<0, 174, 4, 194, "holdem",
                       <<".", "1", "0", "-", ".", "2", "5", "-",
                         "n", "o", "-", "l", "i", "m", "i", "t">>,
                       <<22, 23, 21>>, 0,
                       (22 :> 1262) @@ (23 :> 1237) @@ (21 :> 900)>>)>>
       \o (CASE n = 0 -> <<>>
             [] n = 1 ->
                   blinds \o deal
                   \o <<Raw("fold", <<21>>), Raw("fold", <<22>>),
                        Raw("showdown",
                            <<<<>>, [player_id \in {23} |-> HoleCards(player_id)]>>),
                        Raw("end", <<<<23>>,
                                     <<GameState(1, (23 :> 0)),
                                       ResolveRecord(<<23>>, 35, (23 :> 35))>>>>)>>
             [] OTHER ->
                   blinds \o deal
                   \o <<Raw("raise", <<21, 50, 25, 25>>), Raw("call", <<22, 40>>),
                        Raw("showdown",
                            <<<<>>, [player_id \in seated |-> HoleCards(player_id)]>>),
                        Raw("end", <<<<22>>,
                                     <<GameStateWithBest(n, (22 :> 0), best)>>
                                     \o PotRecords(n)>>)>>)

HistoryHands ==
    {PokerEngineHand(HistoryRecords(n, big_posting, all_in), 1310087430,
                     (22 :> "Alice") @@ (23 :> "Bob") @@ (21 :> "Carol")) :
        n \in 0..MaxHistoryPots, big_posting \in BigPostings, all_in \in BOOLEAN}

InitHistory ==
    /\ pc = "feed"
    /\ pokerengine_hand \in HistoryHands
    /\ context = HandContext(pokerengine_hand)
    /\ runs = <<>>
    /\ history = NoHistory
    /\ todo = pokerengine_hand.hand_description
    /\ out = <<>>
    /\ event = NoEvent
    /\ emitted = <<>>
    /\ error = ""
    /\ EndIdle

(* The same narrative events formatted by the observer's generator *)
FormatObserver ==
    /\ pc = "formatted"
    /\ runs' = Append(runs, [generator |-> "ObserverHandHistoryGenerator",
                             history |-> generate_observer(out)])
    /\ pc' = "observed"
    /\ UNCHANGED <<context, out, event, emitted, error, pokerengine_hand,
                   history, todo, endVars>>

NextHistory ==
    \/ Feed
    \/ RecordStep
    \/ EndFinish
    \/ Format
    \/ FormatObserver

SpecHistory == InitHistory /\ [][NextHistory]_vars

(* The hand history of the call was produced *)
Produced == pc \in {"formatted", "observed"} /\ history.error = ""

(* The lines 'collected ... from side pot-N', in the order of the history *)
SidePotLines ==
    SelectSeq(history.lines,
              LAMBDA l : l.kind = "named" /\ l.line[1] = "collected"
                         /\ l.line[3] = "from side pot")

(* For each side-pot collection of a resolve record, in the order of the
   events, the amount of the pot that paid it *)
PaidFrom ==
    Flatten([k \in 1..Len(rec_events) |->
                IF stack[k].type = "resolve"
                THEN [j \in 1..Len(SelectEvents(rec_events[k],
                                                {"PlayerCollectedFromSidePot"})) |->
                         stack[k].pot]
                ELSE <<>>])

(* The side pots of the summary line: <<"Side pot", N, amount>> for each *)
SummarySidePots ==
    LET summary == SelectSeq(history.lines,
                             LAMBDA l : l.kind = "text" /\ l.line[1] = "Total pot")
    IN IF summary = <<>> THEN <<>> ELSE summary[1].line[5]

(* C27: in the formatted history of a hand with any number of side pots,
   the N of a line 'collected ... from side pot-N' and the N of the
   summary's 'Side pot-N <amount>' denote the same resolved pot: the amount
   listed as Side pot-N is the amount of the pot that paid the collections
   from side pot-N. *)
C27_SidePotNumbersAgree ==
    (Produced /\ InEnd) =>
        /\ Len(SidePotLines) = Len(PaidFrom)
        /\ \A i \in 1..Len(SidePotLines) :
              LET N == SidePotLines[i].line[4]
              IN /\ N \in 1..Len(SummarySidePots)
                 /\ SummarySidePots[N][2] = N
                 /\ SummarySidePots[N][3] = PaidFrom[i]

-----------------------------------------------------------------------------
(* The lines of the events from the i-th on, each event formatted once, in
   order, with the context its predecessors left; the all-in flag is set
   for an event followed by a PlayerWentAllIn and cleared for the last *)
RECURSIVE LinesInOrder(_, _, _)
LinesInOrder(events, i, ctx) ==
    IF i > Len(events) THEN <<>>
    ELSE LET all_in == i < Len(events) /\ events[i + 1].cls = "PlayerWentAllIn"
             res == history_from_event(events[i], SetAttr(ctx, "all_in", all_in))
         IN res.events \o LinesInOrder(events, i + 1, res.context)

(* C28: HandHistoryGenerator.generate formats every narrative event of its
   input exactly once and in input order, for input sequences of every
   length, a sequence of exactly one event included; the last event is
   formatted with the all-in flag cleared. *)
C28_EveryEventFormattedOnce ==
    Produced => history.lines = LinesInOrder(out, 1, FormatContext)

-----------------------------------------------------------------------------
(* The all-in records of the hand, in order *)
AllInRecords ==
    SelectSeq(pokerengine_hand.hand_description, LAMBDA raw : raw.label = "all-in")

(* Each all-in record comes directly after a blind, ante, call or raise
   record of the same player *)
AllInFollowsOwnAction ==
    LET records == pokerengine_hand.hand_description
    IN \A i \in 1..Len(records) : records[i].label = "all-in" =>
          /\ i > 1
          /\ records[i - 1].label \in {"blind", "ante", "call", "raise"}
          /\ records[i - 1].args[1] = records[i].args[1]

(* C29: in the formatted history of an engine event sequence in which each
   all-in record directly follows a blind, ante, call or raise record of
   the same player, every line ending in ' and is all-in' is an action line
   of the player named by an all-in record, and every all-in record marks
   exactly one line of that player. *)
C29_AllInMarksOwnLine ==
    (Produced /\ AllInFollowsOwnAction) =>
        FlaggedPlayers(history.lines) =
            [i \in 1..Len(AllInRecords) |->
                pokerengine_hand.player_names[AllInRecords[i].args[1]]]

-----------------------------------------------------------------------------
(* The history the observer's generator gave for the events of the call *)
ObserverHistory == runs[Len(runs)].history

IsDealtLine(l) == l.kind = "named" /\ l.line[1] = "Dealt to"

(* C30: for every narrative event sequence for which HandHistoryGenerator
   produces a hand history, ObserverHandHistoryGenerator produces one too,
   without error, and it is the HandHistoryGenerator output with exactly
   the 'Dealt to' lines removed, hands in which a player mucks included. *)
C30_ObserverDropsDealtLines ==
    (pc = "observed" /\ history.error = "") =>
        /\ ObserverHistory.error = ""
        /\ ObserverHistory.lines =
              SelectSeq(history.lines, LAMBDA l : ~IsDealtLine(l))

====
